---- MODULE Spec2Model ----
(***************************************************************************)
(* Model of the detour DNS proxy core: wire codec (src/src/dns.rs),        *)
(* blocklist (src/src/filter/blocklist.rs), cache (src/src/cache.rs),      *)
(* resolver (src/src/resolver.rs), counters (src/src/stats.rs), UDP        *)
(* transport (src/src/transport/udp.rs) and TCP transport                  *)
(* (src/src/transport/tcp.rs).                                             *)
(*                                                                         *)
(* Byte strings and Rust strings are sequences of byte values 0..255.      *)
(* Offsets in the Rust code are 0-based; byte k of a buffer b is b[k+1].   *)
(* An Option<T> is a sequence of length at most one: None is << >>,        *)
(* Some(x) is <<x>>.                                                       *)
(***************************************************************************)
EXTENDS Integers, Sequences, FiniteSets, TLC

VARIABLES
    blk,      \* one run of Blocklist::is_blocked (SpecBlocklist)
    cod,      \* one query through the codec and the resolver (SpecCodec)
    cache,  \* Resolver.entries, the DnsCache entries: qtype -> domain -> [response, expires_at]
    clock,    \* the monotonic clock (Instant::now()), in seconds
    last,     \* the latest resolver call: its input, its result, and what
              \* the cache held for the query's key when it was made
    puts,     \* history: per cache key, instant and bytes of the latest
              \* process_response that parsed to it
    nresp,    \* number of process_response calls so far
    ticks,    \* number of clock advances so far
    upstreams,        \* run: the configured upstream addresses
    socket,           \* datagrams that arrived on the listening socket
    upstream_sockets, \* per upstream socket, the datagrams that arrived on it
    upstream_rx,      \* per upstream, the datagrams that arrived at that peer
    pending,          \* run: query id -> PendingQuery
    client_rx,        \* bag of the datagrams the proxy sent to clients
    log,              \* history: queries sent, and per id the entries
                      \* inserted and the replies relayed and dropped
    tcp,              \* the TCP connections: per connection, where its
                      \* handle_connection task stands and what it wrote
    stats,            \* Resolver.stats: the atomic counters of Stats
    threads,          \* the threads calling into Stats (SpecStats)
    poisoned          \* whether the RwLock of DnsCache.entries is poisoned

resolverVars == <<cache, clock, last, puts, nresp, ticks>>

udpVars ==
    <<upstreams, socket, upstream_sockets, upstream_rx, pending, client_rx, log>>

\* the TCP connections, the threads of SpecStats and the cache lock
otherVars == <<tcp, threads, poisoned>>

vars ==
    <<blk, cod, cache, clock, last, puts, nresp, ticks,
      upstreams, socket, upstream_sockets, upstream_rx, pending, client_rx, log,
      tcp, stats, threads, poisoned>>

None == << >>
Some(x) == <<x>>

(***************************************************************************)
(* Bounds of the model.                                                    *)
(***************************************************************************)
\* longest domain string handed to is_blocked in SpecBlocklist
MaxDomLen == 4
\* most lines of blocklist text in SpecBlocklist
MaxLines == 2
\* longest label and most labels of a query name in SpecCodec
MaxLabelLen == 2
MaxLabels == 2
\* most upstream responses handed to the resolver, most clock advances
MaxResponses == 2
MaxTicks == 2
\* most datagrams the clients send
MaxQueries == 2
\* most bytes of the name part of a raw datagram
MaxNameBytes == 4

(***************************************************************************)
(* Rust string primitives used by the code, on byte sequences.  The inputs *)
(* of the model are ASCII (plus bytes that are not valid UTF-8), for which *)
(* char and byte offsets coincide.                                         *)
(***************************************************************************)
\* u8::is_ascii_uppercase / to_ascii_lowercase of one byte
lower_byte(b) == IF b >= 65 /\ b <= 90 THEN b + 32 ELSE b

\* str::to_ascii_lowercase
to_ascii_lowercase(s) == [i \in 1..Len(s) |-> lower_byte(s[i])]

\* str::to_lowercase; equal to to_ascii_lowercase on ASCII input, the only
\* valid UTF-8 the model feeds it
to_lowercase(s) == [i \in 1..Len(s) |-> lower_byte(s[i])]

\* char::is_whitespace on ASCII: \t \n \v \f \r and space
is_whitespace(b) == b \in {9, 10, 11, 12, 13, 32}

RECURSIVE trim_start(_)
trim_start(s) ==
    IF Len(s) > 0 /\ is_whitespace(s[1]) THEN trim_start(Tail(s)) ELSE s

RECURSIVE trim_end(_)
trim_end(s) ==
    IF Len(s) > 0 /\ is_whitespace(s[Len(s)])
    THEN trim_end(SubSeq(s, 1, Len(s) - 1))
    ELSE s

\* str::trim
trim(s) == trim_end(trim_start(s))

\* str::starts_with(char)
starts_with(s, c) == Len(s) > 0 /\ s[1] = c

\* str::find(char): Some(0-based offset of the first c), or None
find(s, c) ==
    LET hits == {i \in 1..Len(s) : s[i] = c}
    IN  IF hits = {} THEN None
        ELSE Some((CHOOSE i \in hits : \A j \in hits : i <= j) - 1)

\* str::split(char): the pieces between occurrences of c (one piece, the
\* whole string, when c does not occur; pieces may be empty)
RECURSIVE split(_, _)
split(s, c) ==
    LET p == find(s, c)
    IN  IF p = None THEN <<s>>
        ELSE <<SubSeq(s, 1, p[1])>> \o split(SubSeq(s, p[1] + 2, Len(s)), c)

\* [String]::join(sep)
RECURSIVE join(_, _)
join(parts, sep) ==
    IF Len(parts) = 0 THEN << >>
    ELSE IF Len(parts) = 1 THEN parts[1]
    ELSE parts[1] \o sep \o join(Tail(parts), sep)

\* str::lines: split at \n, a trailing \r of a line dropped, and no empty
\* last line after a final line ending
strip_cr(l) ==
    IF Len(l) > 0 /\ l[Len(l)] = 13 THEN SubSeq(l, 1, Len(l) - 1) ELSE l

lines(text) ==
    LET raw  == split(text, 10)
        n    == Len(raw)
        kept == IF raw[n] = << >> THEN SubSeq(raw, 1, n - 1) ELSE raw
    IN  [i \in 1..Len(kept) |->
            IF i < n THEN strip_cr(kept[i]) ELSE kept[i]]

(***************************************************************************)
(* Blocklist (src/src/filter/blocklist.rs)                                 *)
(***************************************************************************)
\* from_lists: every line of every list, trimmed; empty lines and lines
\* starting with # or ! dropped; the rest lowercased and collected in a set
from_lists(lists) ==
    LET all == UNION { { lines(lists[k])[i] : i \in 1..Len(lines(lists[k])) } :
                       k \in 1..Len(lists) }
        kept == { trim(l) : l \in { l \in all :
                    LET line == trim(l)
                    IN  ~(line = << >> \/ starts_with(line, 35)
                                       \/ starts_with(line, 33)) } }
    IN  { to_ascii_lowercase(line) : line \in kept }

\* is_blocked with the first '.' searched from the right end: probes the
\* full name and then only its last label
is_blocked_step_rfind(domains, current) ==
    IF current \in domains THEN [done |-> TRUE, result |-> TRUE, current |-> current]
    ELSE LET hits == {i \in 1..Len(current) : current[i] = 46}
         IN  IF hits = {}
             THEN [done |-> TRUE, result |-> FALSE, current |-> current]
             ELSE LET pos == (CHOOSE i \in hits : \A j \in hits : i >= j) - 1
                  IN  [done |-> FALSE, result |-> FALSE,
                       current |-> SubSeq(current, pos + 2, Len(current))]

\* is_blocked that only tries the full name
is_blocked_step_exact(domains, current) ==
    [done |-> TRUE, result |-> current \in domains, current |-> current]

\* One iteration of the loop of is_blocked: a set probe of `current`, then
\* either return or advance past the leftmost '.'
is_blocked_step(domains, current) ==
    IF current \in domains
    THEN [done |-> TRUE, result |-> TRUE, current |-> current]
    ELSE LET pos == find(current, 46)
         IN  IF pos = None
             THEN [done |-> TRUE, result |-> FALSE, current |-> current]
             ELSE [done |-> FALSE, result |-> FALSE,
                   current |-> SubSeq(current, pos[1] + 2, Len(current))]

\* Blocklist::is_blocked: the loop run to its return
RECURSIVE is_blocked(_, _)
is_blocked(domains, domain) ==
    LET s == is_blocked_step(domains, domain)
    IN  IF s.done THEN s.result ELSE is_blocked(domains, s.current)

(***************************************************************************)
(* Wire codec (src/src/dns.rs)                                             *)
(***************************************************************************)
HEADER_LEN == 12

\* u16::from_be_bytes([hi, lo])
u16_from_be_bytes(hi, lo) == hi * 256 + lo

\* u16::to_be_bytes
u16_to_be_bytes(x) == <<(x \div 256) % 256, x % 256>>

\* A u32 or a Duration in whole seconds that may exceed the checker's
\* integers is the pair [hi, lo] of its 16-bit halves: hi * 65536 + lo.
wide(n) == [hi |-> n \div 65536, lo |-> n % 65536]

wide_lt(a, b) == a.hi < b.hi \/ (a.hi = b.hi /\ a.lo < b.lo)

\* u32::from_be_bytes
u32_from_be_bytes(b0, b1, b2, b3) == [hi |-> b0 * 256 + b1, lo |-> b2 * 256 + b3]

\* u32::to_be_bytes of a value below 2^31
u32_to_be_bytes(x) ==
    <<(x \div 16777216) % 256, (x \div 65536) % 256, (x \div 256) % 256, x % 256>>

\* std::str::from_utf8(..).is_ok(): the UTF-8 well-formedness table
RECURSIVE from_utf8_ok(_)
from_utf8_ok(s) ==
    IF Len(s) = 0 THEN TRUE
    ELSE LET b == s[1]
             cont(k) == k <= Len(s) /\ s[k] >= 128 /\ s[k] <= 191
             in2(lo, hi) == 2 <= Len(s) /\ s[2] >= lo /\ s[2] <= hi
             rest(n) == from_utf8_ok(SubSeq(s, n + 1, Len(s)))
         IN  IF b < 128 THEN rest(1)
             ELSE IF b >= 194 /\ b <= 223 THEN cont(2) /\ rest(2)
             ELSE IF b = 224 THEN in2(160, 191) /\ cont(3) /\ rest(3)
             ELSE IF b = 237 THEN in2(128, 159) /\ cont(3) /\ rest(3)
             ELSE IF b >= 225 /\ b <= 239 THEN cont(2) /\ cont(3) /\ rest(3)
             ELSE IF b = 240 THEN in2(144, 191) /\ cont(3) /\ cont(4) /\ rest(4)
             ELSE IF b >= 241 /\ b <= 243 THEN cont(2) /\ cont(3) /\ cont(4) /\ rest(4)
             ELSE IF b = 244 THEN in2(128, 143) /\ cont(3) /\ cont(4) /\ rest(4)
             ELSE FALSE

\* The label loop of DnsQuery::parse from offset pos: [ok, pos, parts]
RECURSIVE parse_labels(_, _, _)
parse_labels(data, pos, domain_parts) ==
    IF ~(pos < Len(data))
    THEN [ok |-> TRUE, pos |-> pos, parts |-> domain_parts]
    ELSE LET label_len == data[pos + 1]
         IN  IF label_len = 0
             THEN [ok |-> TRUE, pos |-> pos + 1, parts |-> domain_parts]
             ELSE IF pos + 1 + label_len > Len(data)
             THEN [ok |-> FALSE, pos |-> pos + 1, parts |-> domain_parts]
             ELSE LET label == SubSeq(data, pos + 2, pos + 1 + label_len)
                  IN  IF ~from_utf8_ok(label)
                      THEN [ok |-> FALSE, pos |-> pos + 1, parts |-> domain_parts]
                      ELSE parse_labels(data, pos + 1 + label_len,
                                        Append(domain_parts, label))

\* DnsQuery::parse that keeps the case of the name
parse_keep_case(data) ==
    IF Len(data) < HEADER_LEN + 1 THEN None
    ELSE LET id == u16_from_be_bytes(data[1], data[2])
             l  == parse_labels(data, HEADER_LEN, << >>)
         IN  IF ~l.ok THEN None
             ELSE IF l.parts = << >> THEN None
             ELSE IF l.pos + 4 > Len(data) THEN None
             ELSE Some([id |-> id,
                        domain |-> join(l.parts, <<46>>),
                        qtype |-> u16_from_be_bytes(data[l.pos + 1], data[l.pos + 2]),
                        qclass |-> u16_from_be_bytes(data[l.pos + 3], data[l.pos + 4])])

\* DnsQuery::parse that reads the id little-endian
parse_id_le(data) ==
    IF Len(data) < HEADER_LEN + 1 THEN None
    ELSE LET id == u16_from_be_bytes(data[2], data[1])
             l  == parse_labels(data, HEADER_LEN, << >>)
         IN  IF ~l.ok THEN None
             ELSE IF l.parts = << >> THEN None
             ELSE IF l.pos + 4 > Len(data) THEN None
             ELSE Some([id |-> id,
                        domain |-> to_lowercase(join(l.parts, <<46>>)),
                        qtype |-> u16_from_be_bytes(data[l.pos + 1], data[l.pos + 2]),
                        qclass |-> u16_from_be_bytes(data[l.pos + 3], data[l.pos + 4])])

\* DnsQuery::parse without the domain_parts.is_empty() test
parse_any_name(data) ==
    IF Len(data) < HEADER_LEN + 1 THEN None
    ELSE LET id == u16_from_be_bytes(data[1], data[2])
             l  == parse_labels(data, HEADER_LEN, << >>)
         IN  IF ~l.ok THEN None
             ELSE IF l.pos + 4 > Len(data) THEN None
             ELSE Some([id |-> id,
                        domain |-> to_lowercase(join(l.parts, <<46>>)),
                        qtype |-> u16_from_be_bytes(data[l.pos + 1], data[l.pos + 2]),
                        qclass |-> u16_from_be_bytes(data[l.pos + 3], data[l.pos + 4])])

\* DnsQuery::parse: Some([id, domain, qtype, qclass]) or None
parse(data) ==
    IF Len(data) < HEADER_LEN + 1 THEN None
    ELSE LET id == u16_from_be_bytes(data[1], data[2])
             l  == parse_labels(data, HEADER_LEN, << >>)
         IN  IF ~l.ok THEN None
             ELSE IF l.parts = << >> THEN None
             ELSE IF l.pos + 4 > Len(data) THEN None
             ELSE Some([id |-> id,
                        domain |-> to_lowercase(join(l.parts, <<46>>)),
                        qtype |-> u16_from_be_bytes(data[l.pos + 1], data[l.pos + 2]),
                        qclass |-> u16_from_be_bytes(data[l.pos + 3], data[l.pos + 4])])

\* response_from_cache that leaves the cached id in place
response_from_cache_keep_id(query, cached) ==
    IF Len(cached) < 2 THEN None ELSE Some(cached)

\* DnsQuery::response_from_cache: the cached bytes with bytes 0-1 set to
\* query.id, big-endian; None when fewer than two bytes are cached
response_from_cache(query, cached) ==
    IF Len(cached) < 2 THEN None
    ELSE Some(<<(query.id \div 256) % 256, query.id % 256>>
              \o SubSeq(cached, 3, Len(cached)))

\* DnsResponse::blocked that answers with RCODE 2 (server failure)
blocked_servfail(query) ==
    [id |-> query.id,
     flags |-> 33154,                      \* 0x8182
     questions |-> <<[domain |-> query.domain, qtype |-> query.qtype,
                      qclass |-> query.qclass]>>,
     answers |-> << >>]

\* DnsResponse::blocked: the sinkhole response for a query
blocked(query) ==
    [id |-> query.id,
     flags |-> 33152,                      \* 0x8180
     questions |-> <<[domain |-> query.domain, qtype |-> query.qtype,
                      qclass |-> query.qclass]>>,
     answers |-> <<[name |-> query.domain, rtype |-> 1, class |-> 1,
                    ttl |-> 300, rdata |-> <<0, 0, 0, 0>>]>>]

\* DnsQuery::blocked_response
blocked_response(query) == blocked(query)

\* DnsResponse::encode_domain: each piece of domain.split('.') as a length
\* byte (len as u8) and its bytes, then a zero byte
RECURSIVE encode_labels(_)
encode_labels(pieces) ==
    IF Len(pieces) = 0 THEN << >>
    ELSE <<Len(pieces[1]) % 256>> \o pieces[1] \o encode_labels(Tail(pieces))

encode_domain(domain) == encode_labels(split(domain, 46)) \o <<0>>

\* the question loop of to_bytes
RECURSIVE encode_questions(_)
encode_questions(qs) ==
    IF Len(qs) = 0 THEN << >>
    ELSE encode_domain(qs[1].domain) \o u16_to_be_bytes(qs[1].qtype)
         \o u16_to_be_bytes(qs[1].qclass) \o encode_questions(Tail(qs))

\* the answer loop of to_bytes: the name is the pointer C0 0C when it
\* equals the first question's domain
RECURSIVE encode_answers(_, _)
encode_answers(questions, as) ==
    IF Len(as) = 0 THEN << >>
    ELSE LET a == as[1]
         IN  (IF Len(questions) > 0 /\ a.name = questions[1].domain
              THEN <<192, 12>> ELSE encode_domain(a.name))
             \o u16_to_be_bytes(a.rtype) \o u16_to_be_bytes(a.class)
             \o u32_to_be_bytes(a.ttl)
             \o u16_to_be_bytes(Len(a.rdata) % 65536) \o a.rdata
             \o encode_answers(questions, Tail(as))

\* DnsResponse::to_bytes
to_bytes(r) ==
    u16_to_be_bytes(r.id) \o u16_to_be_bytes(r.flags)
    \o u16_to_be_bytes(Len(r.questions) % 65536)
    \o u16_to_be_bytes(Len(r.answers) % 65536)
    \o <<0, 0>> \o <<0, 0>>
    \o encode_questions(r.questions)
    \o encode_answers(r.questions, r.answers)

\* The name-skipping loop shared by the question and the record walk of
\* parse_min_ttl: stops after a zero byte or a two-byte pointer, or at the
\* end of the buffer
RECURSIVE skip_name(_, _)
skip_name(response, pos) ==
    IF ~(pos < Len(response)) THEN pos
    ELSE LET b == response[pos + 1]
         IN  IF b = 0 THEN pos + 1
             ELSE IF b >= 192 THEN pos + 2
             ELSE skip_name(response, pos + 1 + b)

\* u32::MAX
U32_MAX == [hi |-> 65535, lo |-> 65535]

\* The record loop of parse_min_ttl: the minimum TTL over at most n records
RECURSIVE scan_rrs(_, _, _, _)
scan_rrs(response, pos, n, min_ttl) ==
    IF n = 0 \/ pos >= Len(response) THEN min_ttl
    ELSE LET p == skip_name(response, pos)
         IN  IF p + 10 > Len(response) THEN min_ttl
             ELSE LET ttl == u32_from_be_bytes(response[p + 5], response[p + 6],
                                               response[p + 7], response[p + 8])
                      rdlength == u16_from_be_bytes(response[p + 9], response[p + 10])
                  IN  scan_rrs(response, p + 10 + rdlength, n - 1,
                               IF wide_lt(ttl, min_ttl) THEN ttl ELSE min_ttl)

\* DnsResponse::parse_min_ttl: a Duration in seconds, as a pair
parse_min_ttl(response, default) ==
    IF Len(response) < HEADER_LEN THEN default
    ELSE LET ancount == u16_from_be_bytes(response[7], response[8])
             nscount == u16_from_be_bytes(response[9], response[10])
             arcount == u16_from_be_bytes(response[11], response[12])
             total_rrs == ancount + nscount + arcount
         IN  IF total_rrs = 0 THEN default
             ELSE LET pos == skip_name(response, HEADER_LEN) + 4
                      min_ttl == scan_rrs(response, pos, total_rrs, U32_MAX)
                  IN  IF min_ttl = U32_MAX THEN default ELSE min_ttl

(***************************************************************************)
(* Query filter.  src/src/filter/mod.rs holds the revision of filter_query *)
(* that works on the raw packet (extract_domain, create_blocked_response); *)
(* Resolver::process_query (src/src/resolver.rs:59) calls filter_query     *)
(* with the parsed DnsQuery, whose sinkhole response is built by           *)
(* DnsQuery::blocked_response and DnsResponse::to_bytes.                   *)
(***************************************************************************)
\* The label loop of extract_domain from offset pos: [ok, parts]
RECURSIVE extract_labels(_, _, _)
extract_labels(query, pos, domain_parts) ==
    IF pos >= Len(query) THEN [ok |-> FALSE, parts |-> domain_parts]
    ELSE LET label_len == query[pos + 1]
         IN  IF label_len = 0 THEN [ok |-> TRUE, parts |-> domain_parts]
             ELSE IF pos + 1 + label_len > Len(query)
             THEN [ok |-> FALSE, parts |-> domain_parts]
             ELSE LET label == SubSeq(query, pos + 2, pos + 1 + label_len)
                  IN  IF ~from_utf8_ok(label)
                      THEN [ok |-> FALSE, parts |-> domain_parts]
                      ELSE extract_labels(query, pos + 1 + label_len,
                                          Append(domain_parts, label))

\* filter::extract_domain: the name of the raw packet, case kept
extract_domain(query) ==
    IF Len(query) < 12 + 1 THEN None
    ELSE LET l == extract_labels(query, 12, << >>)
         IN  IF ~l.ok THEN None
             ELSE IF l.parts = << >> THEN None
             ELSE Some(join(l.parts, <<46>>))

\* the question walk of create_blocked_response: offset of the zero byte
RECURSIVE question_end(_, _)
question_end(query, pos) ==
    IF pos < Len(query) /\ query[pos + 1] # 0
    THEN question_end(query, pos + 1 + query[pos + 1])
    ELSE pos

\* filter::create_blocked_response: the sinkhole response built from the
\* raw packet, its question section copied
create_blocked_response(query) ==
    LET pos == question_end(query, 12) + 1 + 4
    IN  SubSeq(query, 1, 2) \o <<129, 128>> \o <<0, 1>> \o <<0, 1>>
        \o <<0, 0>> \o <<0, 0>>
        \o (IF pos <= Len(query) THEN SubSeq(query, 13, pos) ELSE << >>)
        \o <<192, 12>> \o <<0, 1>> \o <<0, 1>> \o <<0, 0, 1, 44>>
        \o <<0, 4>> \o <<0, 0, 0, 0>>

\* filter::filter_query of src/src/filter/mod.rs, on the raw packet
filter_query_packet(domains, query) ==
    LET domain == extract_domain(query)
    IN  IF domain = None THEN None
        ELSE IF is_blocked(domains, domain[1])
        THEN Some(create_blocked_response(query))
        ELSE None

\* filter_query as Resolver::process_query calls it, on the parsed query:
\* the sinkhole response when the parsed domain is blocked
filter_query(domains, query) ==
    IF is_blocked(domains, query.domain)
    THEN Some(to_bytes(blocked_response(query)))
    ELSE None

(***************************************************************************)
(* Cache (src/src/cache.rs): entries is the two-level map                  *)
(* qtype -> domain -> [response, expires_at]; instants are whole seconds   *)
(* of the monotonic clock.                                                 *)
(***************************************************************************)
min_ttl == 60
max_ttl == 86400

EmptyMap == [x \in {} |-> x]

\* Duration::clamp of a pair x between lo and hi seconds (both below 2^31):
\* the clamped number of seconds
clamp(x, lo, hi) ==
    IF wide_lt(x, wide(lo)) THEN lo
    ELSE IF wide_lt(wide(hi), x) THEN hi
    ELSE x.hi * 65536 + x.lo

\* entries.get(&qtype).and_then(|inner| inner.get(domain)).is_some()
has_entry(entries, qtype, domain) ==
    qtype \in DOMAIN entries /\ domain \in DOMAIN entries[qtype]

\* inner.remove(domain)
remove_entry(entries, qtype, domain) ==
    [t \in DOMAIN entries |->
        IF t = qtype
        THEN [d \in (DOMAIN entries[t]) \ {domain} |-> entries[t][d]]
        ELSE entries[t]]

\* DnsCache::get whose entry is still served at the instant it expires
get_inclusive(entries, query, now) ==
    IF has_entry(entries, query.qtype, query.domain)
    THEN LET entry == entries[query.qtype][query.domain]
         IN  IF now <= entry.expires_at
             THEN [result |-> response_from_cache(query, entry.response),
                   entries |-> entries]
             ELSE [result |-> None,
                   entries |-> remove_entry(entries, query.qtype, query.domain)]
    ELSE [result |-> None, entries |-> entries]

\* DnsCache::get that leaves an expired entry in the map
get_no_evict(entries, query, now) ==
    IF has_entry(entries, query.qtype, query.domain)
       /\ now < entries[query.qtype][query.domain].expires_at
    THEN [result |-> response_from_cache(query,
                        entries[query.qtype][query.domain].response),
          entries |-> entries]
    ELSE [result |-> None, entries |-> entries]

\* DnsCache::get that, on a miss, sweeps every expired entry out of the map
get_sweep(entries, query, now) ==
    IF has_entry(entries, query.qtype, query.domain)
       /\ now < entries[query.qtype][query.domain].expires_at
    THEN [result |-> response_from_cache(query,
                        entries[query.qtype][query.domain].response),
          entries |-> entries]
    ELSE [result |-> None,
          entries |->
            [t \in DOMAIN entries |->
                [d \in { x \in DOMAIN entries[t] :
                           now < entries[t][x].expires_at } |-> entries[t][d]]]]

\* DnsCache::get that serves an entry only to a query of the class of the
\* question it was stored from
get_same_class(entries, query, now) ==
    IF has_entry(entries, query.qtype, query.domain)
    THEN LET entry == entries[query.qtype][query.domain]
         IN  IF now < entry.expires_at
             THEN [result |->
                     IF parse(entry.response)[1].qclass = query.qclass
                     THEN response_from_cache(query, entry.response)
                     ELSE None,
                   entries |-> entries]
             ELSE [result |-> None,
                   entries |-> remove_entry(entries, query.qtype, query.domain)]
    ELSE [result |-> None, entries |-> entries]

\* DnsCache::get at instant now: [result, entries]; a live entry is served
\* with the id rewritten, an expired one is removed
get(entries, query, now) ==
    IF has_entry(entries, query.qtype, query.domain)
    THEN LET entry == entries[query.qtype][query.domain]
         IN  IF now < entry.expires_at
             THEN [result |-> response_from_cache(query, entry.response),
                   entries |-> entries]
             ELSE \* write phase: now >= entry.expires_at
                  [result |-> None,
                   entries |-> remove_entry(entries, query.qtype, query.domain)]
    ELSE [result |-> None, entries |-> entries]

\* DnsCache::get, the block under the read lock: the response of a live
\* entry with the id rewritten, None to go on to the write lock
get_read(entries, query, now) ==
    IF has_entry(entries, query.qtype, query.domain)
       /\ now < entries[query.qtype][query.domain].expires_at
    THEN response_from_cache(query, entries[query.qtype][query.domain].response)
    ELSE None

\* the part of get under the write lock that removes the entry it finds
\* without looking at its expiry
get_write_unchecked(entries, query, now) ==
    IF has_entry(entries, query.qtype, query.domain)
    THEN remove_entry(entries, query.qtype, query.domain)
    ELSE entries

\* DnsCache::get, the part under the write lock, with the `now` taken when
\* get was entered: the entry found now is removed if now >= its expiry
get_write(entries, query, now) ==
    IF has_entry(entries, query.qtype, query.domain)
       /\ now >= entries[query.qtype][query.domain].expires_at
    THEN remove_entry(entries, query.qtype, query.domain)
    ELSE entries

\* DnsCache::put that stores the scanned TTL unclamped
put_unclamped(entries, query, response, now) ==
    LET scanned == parse_min_ttl(response, wide(min_ttl))
        ttl   == IF scanned.hi > 32767 THEN 2147483647
                 ELSE scanned.hi * 65536 + scanned.lo
        inner == IF query.qtype \in DOMAIN entries THEN entries[query.qtype]
                 ELSE EmptyMap
        entry == [response |-> response, expires_at |-> now + ttl]
    IN  (query.qtype :> ((query.domain :> entry) @@ inner)) @@ entries

\* DnsCache::put that keeps the entry already stored when that one expires
\* later
put_keep_later(entries, query, response, now) ==
    LET ttl == clamp(parse_min_ttl(response, wide(min_ttl)), min_ttl, max_ttl)
        inner == IF query.qtype \in DOMAIN entries THEN entries[query.qtype]
                 ELSE EmptyMap
        entry == [response |-> response, expires_at |-> now + ttl]
    IN  IF has_entry(entries, query.qtype, query.domain)
           /\ entries[query.qtype][query.domain].expires_at > now + ttl
        THEN entries
        ELSE (query.qtype :> ((query.domain :> entry) @@ inner)) @@ entries

\* DnsCache::put at instant now: the entry for (qtype, domain) is inserted
\* or replaced, expiring after the clamped minimum TTL
put(entries, query, response, now) ==
    LET ttl   == clamp(parse_min_ttl(response, wide(min_ttl)), min_ttl, max_ttl)
        inner == IF query.qtype \in DOMAIN entries THEN entries[query.qtype]
                 ELSE EmptyMap
        entry == [response |-> response, expires_at |-> now + ttl]
    IN  (query.qtype :> ((query.domain :> entry) @@ inner)) @@ entries

\* sum of the sizes of the sets in S
RECURSIVE sum_card(_)
sum_card(S) ==
    IF S = {} THEN 0
    ELSE LET t == CHOOSE t \in S : TRUE
         IN  Cardinality(t[2]) + sum_card(S \ {t})

\* DnsCache::len
len(entries) == sum_card({ <<t, DOMAIN entries[t]>> : t \in DOMAIN entries })

\* DnsCache::get that takes the map out of a poisoned lock
lock_get_into_inner(p, entries, query, now) == get(entries, query, now)

\* DnsCache::get, put and len with the lock: when it is poisoned (p),
\* read() and write() give Err, and get returns None, put returns and len
\* gives 0 without touching the map
lock_get(p, entries, query, now) ==
    IF p THEN [result |-> None, entries |-> entries]
    ELSE get(entries, query, now)

lock_put(p, entries, query, response, now) ==
    IF p THEN entries ELSE put(entries, query, response, now)

lock_len(p, entries) == IF p THEN 0 ELSE len(entries)

(***************************************************************************)
(* Resolver (src/src/resolver.rs)                                          *)
(***************************************************************************)
\* The embedded blocklist text: "# ads\na\n"
EMBEDDED_LISTS == << <<35, 32, 97, 100, 115, 10, 97, 10>> >>

\* Resolver.blocklist, fixed at construction
blocklist == from_lists(EMBEDDED_LISTS)

Invalid == [kind |-> "Invalid", response |-> << >>, domain |-> << >>]
Blocked(response, domain) ==
    [kind |-> "Blocked", response |-> response, domain |-> domain]
Cached(response, domain) ==
    [kind |-> "Cached", response |-> response, domain |-> domain]
Forward(domain) == [kind |-> "Forward", response |-> << >>, domain |-> domain]

\* process_query that looks in the cache before the blocklist
process_query_cache_first(entries, data, now) ==
    LET q == parse(data)
    IN  IF q = None THEN [action |-> Invalid, entries |-> entries]
        ELSE LET c == get(entries, q[1], now)
                 b == filter_query(blocklist, q[1])
             IN  IF c.result # None
                 THEN [action |-> Cached(c.result[1], q[1].domain),
                       entries |-> c.entries]
                 ELSE IF b # None
                 THEN [action |-> Blocked(b[1], q[1].domain), entries |-> c.entries]
                 ELSE [action |-> Forward(q[1].domain), entries |-> c.entries]

\* Resolver::process_query at instant now, the cache lock poisoned (p) or
\* not: [action, entries]
process_query_on(p, entries, data, now) ==
    LET q == parse(data)
    IN  IF q = None THEN [action |-> Invalid, entries |-> entries]
        ELSE LET b == filter_query(blocklist, q[1])
             IN  IF b # None
                 THEN [action |-> Blocked(b[1], q[1].domain), entries |-> entries]
                 ELSE LET c == lock_get(p, entries, q[1], now)
                      IN  IF c.result # None
                          THEN [action |-> Cached(c.result[1], q[1].domain),
                                entries |-> c.entries]
                          ELSE [action |-> Forward(q[1].domain),
                                entries |-> c.entries]

\* Resolver::process_query with the cache lock sound
process_query(entries, data, now) == process_query_on(FALSE, entries, data, now)

\* Resolver::process_response at instant now, the cache lock poisoned (p)
\* or not: the entries afterwards
process_response_on(p, entries, response, now) ==
    LET q == parse(response)
    IN  IF q = None THEN entries
        ELSE lock_put(p, entries, q[1], response, now)

\* Resolver::process_response that does not cache a truncated response
process_response_skip_truncated(entries, response, now) ==
    IF Len(response) >= 3 /\ (response[3] \div 2) % 2 = 1 THEN entries
    ELSE process_response_on(FALSE, entries, response, now)

\* Resolver::process_response with the cache lock sound
process_response(entries, response, now) ==
    process_response_on(FALSE, entries, response, now)

(***************************************************************************)
(* SpecBlocklist: a blocklist is built from text, then is_blocked runs     *)
(* iteration by iteration on one domain, then on one single-label          *)
(* extension of it.                                                        *)
(***************************************************************************)
\* Lines of blocklist text: plain names, a name with surrounding blanks and
\* upper case, a comment, an adblock-style comment, a blank line, a lone dot
BlockLines ==
    { <<97>>,                     \* "a"
      <<98, 46, 97>>,             \* "b.a"
      <<97, 46, 98>>,             \* "a.b"
      <<32, 65, 46, 97, 32>>,     \* " A.a "
      <<35, 97>>,                 \* "#a"
      <<33, 98>>,                 \* "!b"
      <<32>>,                     \* " "
      << >>,                      \* ""
      <<46>>,                     \* "."
      <<97, 13>> }                \* "a\r"

\* Texts of at most n lines, each line ended by \n
RECURSIVE Texts(_)
Texts(n) ==
    IF n = 0 THEN { << >> }
    ELSE Texts(n - 1) \cup { l \o <<10>> \o t : l \in BlockLines, t \in Texts(n - 1) }

\* Strings of length at most n over the bytes of cs
RECURSIVE Strings(_, _)
Strings(cs, n) ==
    IF n = 0 THEN { << >> }
    ELSE Strings(cs, n - 1) \cup
         { <<c>> \o s : c \in cs, s \in { s \in Strings(cs, n - 1) : Len(s) = n - 1 } }

\* bytes of the domains probed: 'a', 'b', '.'
DomainBytes == {97, 98, 46}
\* single labels prepended: "a", "b", "ab"
ExtLabels == { <<97>>, <<98>>, <<97, 98>> }

BlkIdle == [pc |-> "idle"]
CodIdle == [pc |-> "idle"]

\* the record of `last` before any resolver call
NoCall ==
    [op |-> "none", q |-> << >>, data |-> << >>, action |-> Invalid,
     before |-> [present |-> FALSE, expires_at |-> 0], evicted |-> FALSE]

\* the transaction ids the clients use: 0x1234, 0xABCD, and a third,
\* 0x0102, where no id is used twice
QueryIds == {4660, 43981}
UniqueIds == QueryIds \cup {258}

\* The record log.last of the latest loop iteration: the branch taken and
\* what it decided (kind), the datagram handled and its id, the pending
\* table before it, whether an entry was pending under the id before (had)
\* and is left after (left), whether the datagram was relayed, the datagram
\* handed to send_to for a client, if any, and whether the cache changed.
Event(branch, kind, data, id, before, after, relayed, sent, changed) ==
    [branch |-> branch, kind |-> kind, data |-> data, id |-> id,
     before |-> before, had |-> id \in DOMAIN before,
     left |-> id \in DOMAIN after, relayed |-> relayed, sent |-> sent,
     cache_changed |-> changed]

\* log.last before the first iteration
NoEvent ==
    Event("none", "none", << >>, 0, EmptyMap, EmptyMap, FALSE, None, FALSE)

\* run with the upstream addresses ups: nothing pending, nothing arrived
UdpInit(ups) ==
    /\ upstreams = ups
    /\ socket = << >>
    /\ upstream_sockets = [i \in 1..Len(ups) |-> << >>]
    /\ upstream_rx = [i \in 1..Len(ups) |-> << >>]
    /\ pending = EmptyMap
    /\ client_rx = EmptyMap
    /\ log = [sent |-> << >>,
              forwarded |-> [i \in UniqueIds |-> 0],
              relayed |-> [i \in UniqueIds |-> 0],
              dropped |-> [i \in UniqueIds |-> 0],
              overwritten |-> EmptyMap,
              last |-> NoEvent]

\* no UDP transport
UdpIdle == UdpInit(<< >>)

\* no TCP connection, no thread in Stats, the cache lock sound
OtherIdle ==
    /\ tcp = << >>
    /\ threads = << >>
    /\ poisoned = FALSE

\* Stats::new: every counter at zero.  The fifth counter,
\* total_response_time_us, accumulates measured wall time, which the model
\* does not have; it is left out.
ZeroStats == [requests |-> 0, forwarded |-> 0, cached |-> 0, blocked |-> 0]

StatsIdle == stats = ZeroStats

\* AtomicU64::fetch_add(1) on the counter named field
fetch_add(st, field) == [st EXCEPT ![field] = @ + 1]

\* Stats::record_forwarded / record_cached / record_blocked, called by one
\* thread with no other thread in between
record_forwarded(st) == fetch_add(fetch_add(st, "requests"), "forwarded")
record_cached(st) == fetch_add(fetch_add(st, "requests"), "cached")
record_blocked(st) == fetch_add(fetch_add(st, "requests"), "blocked")

\* Resolver::new: an empty cache; the clock at its origin
ResolverIdle ==
    /\ cache = EmptyMap
    /\ clock = 0
    /\ last = NoCall
    /\ puts = EmptyMap
    /\ nresp = 0
    /\ ticks = 0

InitBlocklist ==
    /\ cod = CodIdle
    /\ ResolverIdle
    /\ UdpIdle
    /\ OtherIdle
    /\ StatsIdle
    /\ \E text \in Texts(MaxLines), d \in Strings(DomainBytes, MaxDomLen) :
        blk = [pc |-> "loop", domains |-> from_lists(<<text>>), domain |-> d,
               current |-> d, probes |-> 0, result |-> FALSE,
               label |-> << >>, ext_result |-> FALSE]

\* one iteration of the loop of is_blocked(domain)
IsBlockedLoop ==
    /\ UNCHANGED <<cod, resolverVars, udpVars, otherVars, stats>>
    /\ blk.pc = "loop"
    /\ LET s == is_blocked_step(blk.domains, blk.current)
       IN  blk' = [blk EXCEPT !.pc = IF s.done THEN "returned" ELSE "loop",
                              !.current = s.current,
                              !.result = s.result,
                              !.probes = @ + 1]

\* is_blocked(label + "." + domain) for a single label
IsBlockedExtension ==
    /\ UNCHANGED <<cod, resolverVars, udpVars, otherVars, stats>>
    /\ blk.pc = "returned"
    /\ \E a \in ExtLabels :
        blk' = [blk EXCEPT !.pc = "extended",
                           !.label = a,
                           !.ext_result = is_blocked(blk.domains, a \o <<46>> \o blk.domain)]

NextBlocklist == IsBlockedLoop \/ IsBlockedExtension

SpecBlocklist == InitBlocklist /\ [][NextBlocklist]_vars

\* d itself, or a suffix of d that starts right after a '.', is in the set
SuffixInSet(domains, d) ==
    \E i \in 0..Len(d) :
        /\ i = 0 \/ d[i] = 46
        /\ SubSeq(d, i + 1, Len(d)) \in domains

\* C8: in every blocklist, is_blocked(x) implies is_blocked(a + "." + x) for
\* every non-empty label a without '.'.
C8_ClosedUnderParentExtension ==
    (blk.pc = "extended" /\ blk.result) => blk.ext_result

\* C8 witness: x is blocked only through a parent suffix, and a.x is blocked
C8_Witness ==
    /\ blk.pc = "extended" /\ blk.result /\ blk.ext_result
    /\ blk.domain \notin blk.domains
    /\ blk.label = <<97, 98>>

\* C9: is_blocked(d) holds exactly when d or a suffix of d starting right
\* after a '.' is in the set; so a partial-label suffix never matches, the
\* empty string is never blocked, and the loop returns after at most
\* Len(d) + 1 probes.
C9_SuffixByLabelOnly ==
    /\ blk.pc \in {"loop", "returned", "extended"} => blk.probes <= Len(blk.domain) + 1
    /\ blk.pc = "loop" => Len(blk.current) + blk.probes <= Len(blk.domain)
    /\ blk.pc \in {"returned", "extended"} =>
          /\ blk.result = SuffixInSet(blk.domains, blk.domain)
          /\ blk.domain = << >> => ~blk.result
    /\ blk.pc = "extended" =>
          blk.ext_result = SuffixInSet(blk.domains, blk.label \o <<46>> \o blk.domain)

\* C9 witness: "ab.a" is not blocked by "b.a" (partial label), with a miss
\* decided after two probes
C9_Witness ==
    /\ blk.pc = "returned" /\ ~blk.result
    /\ blk.domain = <<97, 98, 46, 97>>
    /\ <<98, 46, 97>> \in blk.domains
    /\ blk.probes = 2

(***************************************************************************)
(* SpecCodec: a query is encoded from (id, labels, qtype, qclass), parsed, *)
(* and handed to the resolver with an empty cache, or to the packet        *)
(* revision of the filter.                                                 *)
(***************************************************************************)
\* the question-name encoder of the benches' create_dns_query, on labels
RECURSIVE encode_wire_labels(_)
encode_wire_labels(labels) ==
    IF Len(labels) = 0 THEN << >>
    ELSE <<Len(labels[1]) % 256>> \o labels[1] \o encode_wire_labels(Tail(labels))

\* create_dns_query: a standard query with one question
encode_query(id, labels, qtype, qclass) ==
    u16_to_be_bytes(id) \o <<1, 0>> \o <<0, 1>> \o <<0, 0>> \o <<0, 0>> \o <<0, 0>>
    \o encode_wire_labels(labels) \o <<0>>
    \o u16_to_be_bytes(qtype) \o u16_to_be_bytes(qclass)

\* bytes of the labels: 'a', 'A', '.'
LabelBytes == {97, 65, 46}

\* non-empty labels of at most MaxLabelLen bytes
Labels == Strings(LabelBytes, MaxLabelLen) \ { << >> }

\* sequences of at most n labels
RECURSIVE LabelSeqs(_)
LabelSeqs(n) ==
    IF n = 0 THEN { << >> }
    ELSE LabelSeqs(n - 1) \cup
         { <<l>> \o ls : l \in Labels, ls \in { x \in LabelSeqs(n - 1) : Len(x) = n - 1 } }

\* (id, qtype, qclass) of the encoded queries: 0x1234 A IN, 0xABCD AAAA CH
QueryHeaders == { <<4660, 1, 1>>, <<43981, 28, 3>> }

InitCodec ==
    /\ blk = BlkIdle
    /\ ResolverIdle
    /\ UdpIdle
    /\ OtherIdle
    /\ StatsIdle
    /\ \E labels \in LabelSeqs(MaxLabels), h \in QueryHeaders :
        cod = [pc |-> "encoded", id |-> h[1], labels |-> labels,
               qtype |-> h[2], qclass |-> h[3],
               data |-> encode_query(h[1], labels, h[2], h[3]),
               parsed |-> None, action |-> Invalid, filtered |-> None]

\* DnsQuery::parse on the encoded query
CodecParse ==
    /\ cod.pc = "encoded"
    /\ cod' = [cod EXCEPT !.pc = "parsed", !.parsed = parse(cod.data)]
    /\ UNCHANGED <<blk, resolverVars, udpVars, otherVars, stats>>

\* Resolver::process_query on the encoded query, cache empty
CodecProcessQuery ==
    /\ cod.pc = "parsed"
    /\ cod' = [cod EXCEPT !.pc = "processed",
                          !.action = process_query(EmptyMap, cod.data, 0).action]
    /\ UNCHANGED <<blk, resolverVars, udpVars, otherVars, stats>>

\* filter_query of src/src/filter/mod.rs on the encoded query
CodecFilterPacket ==
    /\ cod.pc = "parsed"
    /\ cod' = [cod EXCEPT !.pc = "packet_filtered",
                          !.filtered = filter_query_packet(blocklist, cod.data)]
    /\ UNCHANGED <<blk, resolverVars, udpVars, otherVars, stats>>

NextCodec == CodecParse \/ CodecProcessQuery \/ CodecFilterPacket

SpecCodec == InitCodec /\ [][NextCodec]_vars

\* offset just past the name that starts at offset pos of a DNS message
RECURSIVE WireNameEnd(_, _)
WireNameEnd(msg, pos) ==
    IF pos >= Len(msg) THEN pos
    ELSE IF msg[pos + 1] = 0 THEN pos + 1
    ELSE IF msg[pos + 1] >= 192 THEN pos + 2
    ELSE WireNameEnd(msg, pos + 1 + msg[pos + 1])

\* the sinkhole answer record: C0 0C, A, IN, TTL 300, RDLENGTH 4, 0.0.0.0
SinkholeRR == <<192, 12, 0, 1, 0, 1, 0, 0, 1, 44, 0, 4, 0, 0, 0, 0>>

\* r is a response with id `id`, flags 0x8180, one question and, right after
\* the question, exactly the sinkhole record
IsSinkhole(r, id) ==
    /\ Len(r) >= 12
    /\ SubSeq(r, 1, 2) = <<id \div 256, id % 256>>
    /\ SubSeq(r, 3, 4) = <<129, 128>>
    /\ SubSeq(r, 5, 6) = <<0, 1>>
    /\ SubSeq(r, 7, 8) = <<0, 1>>
    /\ SubSeq(r, 9, 12) = <<0, 0, 0, 0>>
    /\ SubSeq(r, WireNameEnd(r, 12) + 4 + 1, Len(r)) = SinkholeRR

\* the name a query encoded from `labels` asks for
NameOf(labels) == to_ascii_lowercase(join(labels, <<46>>))

\* C2: the Blocked response of a well-formed query whose domain or a parent
\* suffix is blocklisted has id = Q.id, flags 0x8180, qdcount 1, ancount 1
\* and exactly one answer RR: C0 0C, type 1, class 1, TTL 300, RDLENGTH 4,
\* RDATA 00 00 00 00.
C2_BlockedResponseShape ==
    (/\ cod.pc = "processed"
     /\ cod.labels # << >>
     /\ SuffixInSet(blocklist, NameOf(cod.labels)))
    => /\ cod.action.kind = "Blocked"
       /\ IsSinkhole(cod.action.response, cod.id)

\* C10 as stated: a query encoded from (id, any sequence of non-empty ASCII
\* labels, qtype, qclass) parses to that id, qtype and qclass and to the
\* labels joined with '.', lowercased.
C10_ParseRoundTrip_AnyLabelSequence ==
    cod.pc \in {"parsed", "processed", "packet_filtered"}
    => cod.parsed = Some([id |-> cod.id, domain |-> NameOf(cod.labels),
                          qtype |-> cod.qtype, qclass |-> cod.qclass])

\* C10, amended: a query encoded from (id, a sequence of at least one
\* non-empty ASCII label, qtype, qclass) parses to that id, qtype and qclass
\* and to the labels joined with '.', lowercased.
C10_ParseRoundTrip ==
    (cod.pc \in {"parsed", "processed", "packet_filtered"} /\ cod.labels # << >>)
    => cod.parsed = Some([id |-> cod.id, domain |-> NameOf(cod.labels),
                          qtype |-> cod.qtype, qclass |-> cod.qclass])

\* C10 witness: the query 0xABCD "A.a" AAAA CH, two labels with upper case,
\* has been parsed
C10_Witness ==
    /\ cod.pc = "parsed"
    /\ cod.labels = << <<65>>, <<97>> >> /\ cod.id = 43981
    /\ cod.parsed # None
    /\ cod.parsed[1].domain = <<97, 46, 97>>

\* the query encoded from cod.labels asks for a blocklisted name or for a
\* subdomain of one, whatever the case of its letters
AsksBlocked ==
    /\ cod.labels # << >>
    /\ SuffixInSet(blocklist, NameOf(cod.labels))

\* C22: the block decision does not depend on the case of the letters of
\* the qname: a query whose name, lowercased, is a blocklisted domain or a
\* subdomain of one gets the sinkhole answer, from process_query and from
\* filter_query on the packet alike.
C22_BlockDecisionIgnoresCase ==
    /\ (cod.pc = "processed" /\ AsksBlocked) => cod.action.kind = "Blocked"
    /\ (cod.pc = "packet_filtered" /\ AsksBlocked) => cod.filtered # None

\* the question section of a message with one question: the bytes from
\* offset 12 to the end of qname, qtype and qclass
QuestionBytes(msg) == SubSeq(msg, 13, WireNameEnd(msg, 12) + 4)

\* C23: the question section of a Blocked response is, byte for byte, the
\* question section of the query that was blocked.
C23_BlockedEchoesQuestion ==
    /\ (cod.pc = "processed" /\ cod.action.kind = "Blocked")
       => QuestionBytes(cod.action.response) = QuestionBytes(cod.data)
    /\ (cod.pc = "packet_filtered" /\ cod.filtered # None)
       => QuestionBytes(cod.filtered[1]) = QuestionBytes(cod.data)

(***************************************************************************)
(* SpecResolver: the resolver as the transports use it.  Queries and       *)
(* upstream responses arrive in any order while the clock advances.        *)
(***************************************************************************)
\* build_dns_response of the benches: the query turned into a response with
\* one A record (name C0 0C, class IN, the given 4 TTL bytes, 93.184.216.34)
build_dns_response(id, labels, qtype, qclass, ttl) ==
    u16_to_be_bytes(id) \o <<129, 128>> \o <<0, 1>> \o <<0, 1>> \o <<0, 0>> \o <<0, 0>>
    \o encode_wire_labels(labels) \o <<0>>
    \o u16_to_be_bytes(qtype) \o u16_to_be_bytes(qclass)
    \o <<192, 12>> \o <<0, 1>> \o <<0, 1>> \o ttl \o <<0, 4>> \o <<93, 184, 216, 34>>

\* names asked: "b" (not blocked) and "b.a" (blocked through its parent "a")
QueryNames == { << <<98>> >>, << <<98>>, <<97>> >> }

\* the client queries, as (id, labels, qtype, qclass): type A, class IN
Queries ==
    { [id |-> i, labels |-> n, qtype |-> 1, qclass |-> 1] :
        i \in QueryIds, n \in QueryNames }

\* TTL fields of the upstream answers: 0, 10, 300, 100000 and 2^32 - 1
AnswerTtls ==
    { <<0, 0, 0, 0>>, <<0, 0, 0, 10>>, <<0, 0, 1, 44>>, <<0, 1, 134, 160>>,
      <<255, 255, 255, 255>> }

\* the upstream responses, all with id 0x1234: the query echoed (no record)
\* or answered with one record
Responses ==
    { [id |-> 4660, labels |-> n, qtype |-> 1, qclass |-> 1, kind |-> "echo",
       ttl |-> <<0, 0, 0, 0>>] : n \in QueryNames }
    \cup
    { [id |-> 4660, labels |-> n, qtype |-> 1, qclass |-> 1, kind |-> "answer",
       ttl |-> t] : n \in QueryNames, t \in AnswerTtls }

\* the bytes of a query or of a response
Bytes(m) ==
    IF "kind" \in DOMAIN m /\ m.kind = "answer"
    THEN build_dns_response(m.id, m.labels, m.qtype, m.qclass, m.ttl)
    ELSE encode_query(m.id, m.labels, m.qtype, m.qclass)

\* what the cache holds for (qtype, domain)
EntryView(es, qtype, domain) ==
    IF has_entry(es, qtype, domain)
    THEN [present |-> TRUE, expires_at |-> es[qtype][domain].expires_at]
    ELSE [present |-> FALSE, expires_at |-> 0]

InitResolver ==
    /\ blk = BlkIdle
    /\ cod = CodIdle
    /\ ResolverIdle
    /\ UdpIdle
    /\ OtherIdle
    /\ StatsIdle

\* a transport calls process_query(data)
ProcessQuery ==
    \E q \in Queries :
        LET r == process_query(cache, Bytes(q), clock)
        IN  /\ cache' = r.entries
            /\ last' = [op |-> "query", q |-> q, data |-> Bytes(q),
                        action |-> r.action,
                        before |-> EntryView(cache, q.qtype, NameOf(q.labels)),
                        evicted |-> r.entries # cache]
            /\ UNCHANGED <<blk, cod, otherVars, stats, clock, puts, nresp,
                           ticks, udpVars>>

\* a transport calls process_response(response)
ProcessResponse ==
    /\ nresp < MaxResponses
    /\ \E m \in Responses :
        /\ cache' = process_response(cache, Bytes(m), clock)
        /\ puts' = (<<m.qtype, NameOf(m.labels)>> :> [at |-> clock, data |-> Bytes(m), m |-> m])
                   @@ puts
        /\ last' = [op |-> "response", q |-> m, data |-> Bytes(m),
                    action |-> Invalid,
                    before |-> EntryView(cache, m.qtype, NameOf(m.labels)),
                    evicted |-> FALSE]
        /\ nresp' = nresp + 1
        /\ UNCHANGED <<blk, cod, otherVars, stats, clock, ticks, udpVars>>

\* the instants around which a cached entry changes from live to expired
Expiries(es) ==
    UNION { UNION { { es[t][d].expires_at - 1, es[t][d].expires_at } :
                    d \in DOMAIN es[t] } : t \in DOMAIN es }

\* time passes, up to just before or exactly to the expiry of some entry
Tick ==
    /\ ticks < MaxTicks
    /\ \E t \in Expiries(cache) :
        /\ t > clock
        /\ clock' = t
    /\ ticks' = ticks + 1
    /\ last' = NoCall
    /\ UNCHANGED <<blk, cod, otherVars, stats, cache, puts, nresp, udpVars>>

NextResolver == ProcessQuery \/ ProcessResponse \/ Tick

SpecResolver == InitResolver /\ [][NextResolver]_vars

\* id of a query as its two header bytes
IdBytes(id) == <<id \div 256, id % 256>>

\* the last call was process_query on a query for a blocklisted name
LastQueryBlocked ==
    last.op = "query" /\ SuffixInSet(blocklist, NameOf(last.q.labels))

\* C1: a well-formed query whose domain or a parent suffix is blocklisted is
\* answered Blocked, never Cached or Forward, whatever the cache holds for
\* its key.
C1_BlocklistBeforeCache ==
    LastQueryBlocked => last.action.kind = "Blocked"

\* C1 witness: a blocked query was answered while the cache held a live
\* entry for its (qtype, domain)
C1_Witness ==
    /\ LastQueryBlocked
    /\ last.action.kind = "Blocked"
    /\ last.before.present /\ clock < last.before.expires_at

\* the latest response stored under the key of the last query, its instant,
\* and the seconds it stays live: the scanned minimum TTL (60 when the scan
\* finds none), clamped
LastKey == <<last.q.qtype, NameOf(last.q.labels)>>
StoredAt == puts[LastKey].at
StoredBytes == puts[LastKey].data
LiveSeconds == clamp(parse_min_ttl(StoredBytes, wide(60)), 60, 86400)

\* the last call was process_query, a response was stored under its key
\* before, and less than the clamped TTL has passed since
LastQueryWithinTtl ==
    /\ last.op = "query"
    /\ LastKey \in DOMAIN puts
    /\ clock < StoredAt + LiveSeconds

\* the query was answered from the cache with the stored bytes, id rewritten
AnsweredFromStored ==
    /\ last.action.kind = "Cached"
    /\ last.action.response =
          IdBytes(last.q.id) \o SubSeq(StoredBytes, 3, Len(StoredBytes))

C4_ExpiredForwardsAndEvicts ==
    (/\ last.op = "query"
     /\ ~SuffixInSet(blocklist, NameOf(last.q.labels))
     /\ last.before.present
     /\ clock >= last.before.expires_at)
    => /\ last.action.kind = "Forward"
       /\ ~has_entry(cache, last.q.qtype, NameOf(last.q.labels))

\* C4 witness: the query came at the very instant of expiry and the entry
\* is gone
C4_Witness ==
    /\ last.op = "query"
    /\ last.before.present /\ clock = last.before.expires_at
    /\ last.action.kind = "Forward"
    /\ last.evicted
    /\ len(cache) = 0

\* the TTL field t of an answer, in seconds, when it is at most 86400
SmallTtl(t) == t[1] = 0 /\ t[2] <= 1 /\ (t[2] * 256 + t[3]) * 256 + t[4] <= 86400
TtlSeconds(t) == (t[2] * 256 + t[3]) * 256 + t[4]

\* seconds between the last process_response and the expiry of the entry
\* it stored
LastLifetime ==
    cache[LastKey[1]][LastKey[2]].expires_at - clock

\* C5: every entry inserted by put expires between 60 s and 86400 s after
\* the insert; an answer with TTL 10 or 0 expires after 60 s, one with a
\* TTL above 86400 after 86400 s (and one in between after its TTL).
C5_TtlClamped ==
    last.op = "response"
    => /\ has_entry(cache, LastKey[1], LastKey[2])
       /\ LastLifetime >= 60 /\ LastLifetime <= 86400
       /\ last.q.kind = "answer" =>
            LastLifetime = IF ~SmallTtl(last.q.ttl) THEN 86400
                           ELSE IF TtlSeconds(last.q.ttl) < 60 THEN 60
                           ELSE TtlSeconds(last.q.ttl)

\* The same with the one TTL value 2^32 - 1 set apart, which the scan takes
\* for "no record seen" and replaces by the default of 60 s
C5_TtlClampedBelowU32Max ==
    last.op = "response"
    => /\ has_entry(cache, LastKey[1], LastKey[2])
       /\ LastLifetime >= 60 /\ LastLifetime <= 86400
       /\ last.q.kind = "echo" => LastLifetime = 60
       /\ last.q.kind = "answer" =>
            LastLifetime = IF last.q.ttl = <<255, 255, 255, 255>> THEN 60
                           ELSE IF ~SmallTtl(last.q.ttl) THEN 86400
                           ELSE IF TtlSeconds(last.q.ttl) < 60 THEN 60
                           ELSE TtlSeconds(last.q.ttl)

\* the entries of the map as the set of their (qtype, domain) keys
Keys(es) == UNION { { <<t, d>> : d \in DOMAIN es[t] } : t \in DOMAIN es }

\* C29: a put stores its response under (qtype, qname) in place of what was
\* there: the other entries stay, the number of entries grows by one only
\* if the key was free, the entry expires between 60 s and 86400 s after
\* the put (after its TTL when that lies in between) whatever the expiry
\* of the entry replaced, and a get for the key then returns the response
\* just stored, under the id of the asking query.
C29_PutReplaces ==
    [][ nresp' = nresp + 1
        => LET m == last'.q
               t == m.qtype
               d == NameOf(m.labels)
               life == cache'[t][d].expires_at - clock
           IN  /\ Keys(cache') = Keys(cache) \cup {<<t, d>>}
               /\ \A k \in Keys(cache) \ {<<t, d>>} :
                     cache'[k[1]][k[2]] = cache[k[1]][k[2]]
               /\ len(cache') = Cardinality(Keys(cache) \cup {<<t, d>>})
               /\ has_entry(cache, t, d) => len(cache') = len(cache)
               /\ cache'[t][d].response = Bytes(m)
               /\ life >= 60 /\ life <= 86400
               /\ (m.kind = "answer" /\ SmallTtl(m.ttl)
                     /\ TtlSeconds(m.ttl) >= 60) => life = TtlSeconds(m.ttl)
               /\ \A i \in QueryIds :
                     get(cache', [id |-> i, domain |-> d, qtype |-> t,
                                  qclass |-> m.qclass], clock).result
                       = Some(IdBytes(i) \o SubSeq(Bytes(m), 3, Len(Bytes(m))))
      ]_vars

\* C29 witness: the last call stored a response under a key whose entry
\* was to expire later than the new one does; the map holds that one
\* entry, with the new response
C29_Witness ==
    /\ last.op = "response"
    /\ last.before.present
    /\ has_entry(cache, LastKey[1], LastKey[2])
    /\ cache[LastKey[1]][LastKey[2]].expires_at < last.before.expires_at
    /\ cache[LastKey[1]][LastKey[2]].response = last.data
    /\ len(cache) = 1

\* C34: a process_query, and so the get it makes, changes the map at most
\* by taking out the entry of the query's own key, and only when that
\* entry is expired; the entries of every other key, expired or not, stay
\* as they are and len goes on counting them; and the clock moving on
\* changes nothing in the map.
C34_LazyLocalExpiry ==
    [][ /\ clock' # clock => cache' = cache
        /\ (nresp' = nresp /\ clock' = clock)
             => LET key == <<last'.q.qtype, NameOf(last'.q.labels)>>
                IN  /\ Keys(cache) \ {key} \subseteq Keys(cache')
                    /\ Keys(cache') \subseteq Keys(cache)
                    /\ \A k \in Keys(cache') :
                          cache'[k[1]][k[2]] = cache[k[1]][k[2]]
                    /\ key \in Keys(cache) \ Keys(cache')
                          => cache[key[1]][key[2]].expires_at <= clock
                    /\ len(cache') = Cardinality(Keys(cache'))
      ]_vars

\* C34 witness: the last query found its own entry expired and took it
\* out, while the expired entry of another key is still stored and counted
C34_Witness ==
    /\ last.op = "query" /\ last.evicted
    /\ ~has_entry(cache, LastKey[1], LastKey[2])
    /\ \E k \in Keys(cache) : cache[k[1]][k[2]].expires_at <= clock
    /\ len(cache) = 1

(***************************************************************************)
(* SpecTtl: parse_min_ttl on responses to the question "b" A IN that carry *)
(* up to MaxRRs records with the TTL fields of AnswerTtls, declared in     *)
(* ancount, perhaps with one more record declared in arcount than the      *)
(* message holds, whole or cut: to 11 bytes, or 5 bytes short, which takes *)
(* the RDATA and the last RDLENGTH byte off the last record.               *)
(***************************************************************************)
\* most records in a response
MaxRRs == 2

\* the sequences of at most n TTL fields
RECURSIVE TtlSeqs(_)
TtlSeqs(n) ==
    IF n = 0 THEN { << >> }
    ELSE TtlSeqs(n - 1)
         \cup { Append(s, t) : s \in { x \in TtlSeqs(n - 1) : Len(x) = n - 1 },
                                 t \in AnswerTtls }

\* the records of a response: name C0 0C, A, IN, TTL, RDLENGTH 4, RDATA
RECURSIVE encode_rrs(_)
encode_rrs(ttls) ==
    IF ttls = << >> THEN << >>
    ELSE <<192, 12>> \o <<0, 1>> \o <<0, 1>> \o Head(ttls) \o <<0, 4>>
         \o <<93, 184, 216, 34>> \o encode_rrs(Tail(ttls))

\* a response with the records of ttls, ancount = Len(ttls), arcount = extra
ttl_response(ttls, extra) ==
    u16_to_be_bytes(4660) \o <<129, 128>> \o <<0, 1>>
    \o u16_to_be_bytes(Len(ttls)) \o <<0, 0>> \o u16_to_be_bytes(extra)
    \o encode_wire_labels(<< <<98>> >>) \o <<0>> \o <<0, 1>> \o <<0, 1>>
    \o encode_rrs(ttls)

\* the lengths a response is cut to: whole, 11 bytes, 5 bytes short
CutsOf(msg) == { Len(msg), 11, Len(msg) - 5 }

InitTtl ==
    /\ blk = BlkIdle
    /\ ResolverIdle
    /\ UdpIdle
    /\ OtherIdle
    /\ StatsIdle
    /\ \E ttls \in TtlSeqs(MaxRRs), extra \in {0, 1} :
        \E n \in CutsOf(ttl_response(ttls, extra)) :
            cod = [pc |-> "built", ttls |-> ttls, extra |-> extra,
                   whole |-> n = Len(ttl_response(ttls, extra)),
                   data |-> SubSeq(ttl_response(ttls, extra), 1, n),
                   min_ttl |-> wide(0)]

\* DnsCache::put calls parse_min_ttl(response, self.min_ttl)
TtlScan ==
    /\ cod.pc = "built"
    /\ cod' = [cod EXCEPT !.pc = "scanned",
                          !.min_ttl = parse_min_ttl(cod.data, wide(min_ttl))]
    /\ UNCHANGED <<blk, resolverVars, udpVars, otherVars, stats>>

NextTtl == TtlScan

SpecTtl == InitTtl /\ [][NextTtl]_vars

\* the least of the TTL fields of a non-empty sequence, as a pair
MinOf(ttls) ==
    LET S == { u32_from_be_bytes(ttls[k][1], ttls[k][2], ttls[k][3], ttls[k][4]) :
                 k \in DOMAIN ttls }
    IN  CHOOSE t \in S : \A u \in S : ~wide_lt(u, t)

\* the walk over the declared records runs off the end of the buffer
RunsOff == cod.extra > 0 \/ ~cod.whole

\* C33: parse_min_ttl returns the minimum of the TTL fields of the
\* ancount + nscount + arcount records after the question, and the
\* caller's default when the message has less than 12 bytes, declares no
\* record, or the walk runs off the end of the buffer.
C33_MinTtlOrDefault ==
    cod.pc = "scanned"
    => cod.min_ttl =
         IF Len(cod.data) < 12 \/ Len(cod.ttls) + cod.extra = 0 \/ RunsOff
         THEN wide(min_ttl)
         ELSE MinOf(cod.ttls)

(***************************************************************************)
(* SpecKeys: the resolver asked for two names under several types and      *)
(* classes, with responses stored for several types and classes; the clock *)
(* stands still, so nothing expires.                                       *)
(***************************************************************************)
\* (qtype, qclass) of the questions: A IN, A CH, AAAA IN
KeyHeaders == { <<1, 1>>, <<1, 3>>, <<28, 1>> }

\* the names asked: "b" and "c"
KeyNames == { << <<98>> >>, << <<99>> >> }

\* the queries
KeyQueries ==
    { [id |-> i, labels |-> n, qtype |-> h[1], qclass |-> h[2]] :
        i \in QueryIds, n \in KeyNames, h \in KeyHeaders }

\* the upstream responses, id 0x1234, one record with TTL 300
KeyResponses ==
    { [id |-> 4660, labels |-> n, qtype |-> h[1], qclass |-> h[2],
       kind |-> "answer", ttl |-> <<0, 0, 1, 44>>] :
        n \in KeyNames, h \in KeyHeaders }

\* a transport calls process_query(data)
KeysQuery ==
    \E q \in KeyQueries :
        LET r == process_query(cache, Bytes(q), clock)
        IN  /\ cache' = r.entries
            /\ last' = [op |-> "query", q |-> q, data |-> Bytes(q),
                        action |-> r.action,
                        before |-> EntryView(cache, q.qtype, NameOf(q.labels)),
                        evicted |-> r.entries # cache]
            /\ UNCHANGED <<blk, cod, otherVars, stats, clock, puts, nresp,
                           ticks, udpVars>>

\* a transport calls process_response(response)
KeysResponse ==
    /\ nresp < MaxResponses
    /\ \E m \in KeyResponses :
        /\ cache' = process_response(cache, Bytes(m), clock)
        /\ puts' = (<<m.qtype, NameOf(m.labels)>> :>
                      [at |-> clock, data |-> Bytes(m), m |-> m]) @@ puts
        /\ last' = [op |-> "response", q |-> m, data |-> Bytes(m),
                    action |-> Invalid,
                    before |-> EntryView(cache, m.qtype, NameOf(m.labels)),
                    evicted |-> FALSE]
        /\ nresp' = nresp + 1
        /\ UNCHANGED <<blk, cod, otherVars, stats, clock, ticks, udpVars>>

NextKeys == KeysQuery \/ KeysResponse

SpecKeys == InitResolver /\ [][NextKeys]_vars

\* C30: a query is answered Cached exactly when a response was stored from
\* a question with its qname and qtype, whatever the class of that question
\* and of the query, and then with the bytes of the latest such response
\* under the query's id; responses stored under another qtype do not
\* answer it.
C30_KeyIsTypeAndName ==
    last.op = "query"
    => IF LastKey \in DOMAIN puts
       THEN /\ last.action.kind = "Cached"
            /\ last.action.response =
                 IdBytes(last.q.id)
                 \o SubSeq(puts[LastKey].data, 3, Len(puts[LastKey].data))
       ELSE last.action.kind = "Forward"

\* C30 witness: a query of class IN was answered from the response to a
\* question of class CH, while a response stored under the other qtype
\* was in the cache too
C30_Witness ==
    /\ last.op = "query"
    /\ last.q.qtype = 1 /\ last.q.qclass = 1
    /\ last.action.kind = "Cached"
    /\ LastKey \in DOMAIN puts /\ puts[LastKey].m.qclass = 3
    /\ <<28, NameOf(last.q.labels)>> \in DOMAIN puts

(***************************************************************************)
(* SpecCase: the resolver fed with questions whose names differ in case,   *)
(* "b", "B" and "c", of type A and AAAA, and with responses cut down to    *)
(* the header or one byte more.                                            *)
(***************************************************************************)
CaseNames == { << <<98>> >>, << <<66>> >>, << <<99>> >> }

CaseQueries ==
    { [id |-> i, labels |-> n, qtype |-> t, qclass |-> 1] :
        i \in QueryIds, n \in CaseNames, t \in {1, 28} }

\* the bytes an upstream sends: a response with one record, whole, or its
\* first 12 or 13 bytes
CaseResponses ==
    UNION { { Bytes(m), SubSeq(Bytes(m), 1, 12), SubSeq(Bytes(m), 1, 13) } :
            m \in { [id |-> 4660, labels |-> n, qtype |-> t, qclass |-> 1,
                     kind |-> "answer", ttl |-> <<0, 0, 1, 44>>] :
                    n \in CaseNames, t \in {1, 28} } }

\* a transport calls process_query(data)
CaseQuery ==
    \E q \in CaseQueries :
        LET r == process_query(cache, Bytes(q), clock)
        IN  /\ cache' = r.entries
            /\ last' = [op |-> "query", q |-> q, data |-> Bytes(q),
                        action |-> r.action,
                        before |-> EntryView(cache, q.qtype, NameOf(q.labels)),
                        evicted |-> r.entries # cache]
            /\ UNCHANGED <<blk, cod, otherVars, stats, clock, puts, nresp,
                           ticks, udpVars>>

\* a transport calls process_response(response)
CaseResponse ==
    /\ nresp < MaxResponses
    /\ \E response \in CaseResponses :
        /\ cache' = process_response(cache, response, clock)
        /\ last' = [op |-> "response", q |-> << >>, data |-> response,
                    action |-> Invalid,
                    before |-> [present |-> FALSE, expires_at |-> 0],
                    evicted |-> FALSE]
        /\ nresp' = nresp + 1
        /\ UNCHANGED <<blk, cod, otherVars, stats, clock, puts, ticks,
                       udpVars>>

NextCase == CaseQuery \/ CaseResponse

SpecCase == InitResolver /\ [][NextCase]_vars

\* the qname of the question of msg, its labels joined by dots, lowercased
QuestionName(msg) == NameOf(parse_labels(msg, HEADER_LEN, << >>).parts)

\* the qtype of the question of msg
QuestionType(msg) ==
    LET pos == parse_labels(msg, HEADER_LEN, << >>).pos
    IN  u16_from_be_bytes(msg[pos + 1], msg[pos + 2])

\* C36: every cache entry is stored under the qtype and the lowercased
\* qname of the question of its own bytes, which are at least 13 and which
\* parse; and a Cached response carries a question with the qtype of the
\* query and with its qname up to the case of the letters.
C36_EntryParsesToKey ==
    /\ \A k \in Keys(cache) :
         LET response == cache[k[1]][k[2]].response
         IN  /\ Len(response) >= 13
             /\ parse(response) # None
             /\ k = <<QuestionType(response), QuestionName(response)>>
    /\ (last.op = "query" /\ last.action.kind = "Cached")
         => /\ QuestionType(last.action.response) = last.q.qtype
            /\ QuestionName(last.action.response) = NameOf(last.q.labels)

\* C36 witness: a query for "b" was answered from the response to a
\* question for "B", the one entry in the cache after two responses
C36_Witness ==
    /\ last.op = "query" /\ last.action.kind = "Cached"
    /\ last.q.labels = << <<98>> >>
    /\ parse_labels(last.action.response, HEADER_LEN, << >>).parts
         = << <<66>> >>
    /\ nresp = 2 /\ len(cache) = 1

(***************************************************************************)
(* The UDP transport (src/src/transport/udp.rs): one loop that takes a     *)
(* client datagram when one has arrived and otherwise a datagram from the  *)
(* first upstream socket that has one.  Spec races two upstreams that may  *)
(* answer or echo; SpecEcho has one upstream that echoes, and clients that *)
(* never reuse a transaction id.                                           *)
(***************************************************************************)
\* client addresses and upstream addresses
Clients == {"c1", "c2"}
Upstreams == <<"u1", "u2">>

\* names asked over UDP: "b", "b.a" (blocked) and the root name (no label)
UdpNames == { << <<98>> >>, << <<98>>, <<97>> >>, << >> }

\* the queries the clients send under the given ids: type A, class IN
UdpQueries(ids) ==
    { [id |-> i, labels |-> n, qtype |-> 1, qclass |-> 1] :
        i \in ids, n \in UdpNames }

\* a bag with one more copy of x
BagAdd(b, x) ==
    IF x \in DOMAIN b THEN [b EXCEPT ![x] = @ + 1] ELSE (x :> 1) @@ b

\* HashMap::remove that leaves the entry in the map
pending_peek(map, key) ==
    IF key \in DOMAIN map
    THEN [value |-> Some(map[key]), map |-> map]
    ELSE [value |-> None, map |-> map]

\* HashMap::remove: the value stored under key, if any, and the map without it
pending_remove(map, key) ==
    IF key \in DOMAIN map
    THEN [value |-> Some(map[key]),
          map |-> [k \in (DOMAIN map) \ {key} |-> map[k]]]
    ELSE [value |-> None, map |-> map]

\* an upstream's answer to a query: the query made a response with one
\* A record of TTL 300 (build_dns_response of the benches)
upstream_answer(query) ==
    [query EXCEPT ![3] = 129, ![4] = 128, ![7] = 0, ![8] = 1]
    \o <<192, 12>> \o <<0, 1>> \o <<0, 1>> \o <<0, 0, 1, 44>> \o <<0, 4>>
    \o <<93, 184, 216, 34>>

\* client c sends the datagram data, made from query q, to the listening
\* socket
SendDatagram(c, q, data) ==
    /\ socket' = Append(socket, [src |-> c, data |-> data])
    /\ log' = [log EXCEPT !.sent = Append(@, [client |-> c, q |-> q])]
    /\ UNCHANGED <<blk, cod, otherVars, stats, resolverVars, upstreams,
                   upstream_sockets, upstream_rx, pending, client_rx>>

\* client c sends query q
SendQuery(c, q) == SendDatagram(c, q, Bytes(q))

\* a client sends any query, perhaps under an id already used
ClientSend ==
    /\ Len(log.sent) < MaxQueries
    /\ \E c \in Clients, q \in UdpQueries(QueryIds) : SendQuery(c, q)

\* a client sends a query under an id that no query carried before
ClientSendUnique ==
    /\ Len(log.sent) < MaxQueries
    /\ \E c \in Clients, q \in UdpQueries(UniqueIds) :
        /\ \A k \in 1..Len(log.sent) : log.sent[k].q.id # q.id
        /\ SendQuery(c, q)

\* HashMap::insert that keeps an entry already stored under key
pending_insert_keep(map, key, value) ==
    IF key \in DOMAIN map THEN map ELSE (key :> value) @@ map

\* HashMap::insert: the map with value under key, replacing what was there
pending_insert(map, key, value) == (key :> value) @@ map

\* a select that takes its second branch whatever waits on the first
unbiased(sock) == TRUE

\* `tokio::select! { biased; ... }`: the branches are polled in the order
\* written, so the second one (recv_from_any) is taken only when recv_from
\* on the listening socket is not ready
biased(sock) == sock = << >>

\* the length test that lets through every datagram holding an id
short_datagram_below_id(data) == Len(data) < 2

\* `if len < 12 { continue; }` of both branches: the datagram cannot hold
\* a DNS header
short_datagram(data) == Len(data) < 12

\* the loop over the upstreams that stops at the first send error
send_to_upstreams_until_error(rx, query, forward_ok) ==
    [i \in DOMAIN rx |->
        IF \A j \in 1..i : forward_ok[j] THEN Append(rx[i], query) ELSE rx[i]]

\* `for (i, upstream_addr) in self.upstreams.iter().enumerate()`: the query
\* is handed to send_to of upstream socket i for upstream i, and reaches the
\* upstream when that send succeeds; an error is logged and the loop goes on
send_to_upstreams(rx, query, forward_ok) ==
    [i \in DOMAIN rx |->
        IF forward_ok[i] THEN Append(rx[i], query) ELSE rx[i]]

\* run, first select branch: a datagram on the listening socket.  reply_ok
\* tells whether send_to hands the response to the network, forward_ok[i]
\* whether the send through upstream socket i does.
ClientBranchWith(reply_ok, forward_ok) ==
    /\ socket # << >>
    /\ LET src == Head(socket).src
           query == Head(socket).data
           r == process_query(cache, query, clock)
           query_id == u16_from_be_bytes(query[1], query[2])
       IN  /\ socket' = Tail(socket)
           /\ IF short_datagram(query)
              THEN /\ log' = [log EXCEPT !.last =
                          Event("client", "Short", query, 0, pending, pending,
                                FALSE, None, FALSE)]
                   /\ UNCHANGED <<cache, pending, upstream_rx, client_rx,
                                  stats>>
              ELSE IF r.action.kind = "Invalid"
              THEN /\ log' = [log EXCEPT !.last =
                          Event("client", "Invalid", query, query_id, pending,
                                pending, FALSE, None, FALSE)]
                   /\ UNCHANGED <<cache, pending, upstream_rx, client_rx,
                                  stats>>
              ELSE /\ cache' = r.entries
                   /\ IF r.action.kind \in {"Blocked", "Cached"}
                      THEN /\ client_rx' =
                                IF reply_ok
                                THEN BagAdd(client_rx,
                                       [to |-> src, data |-> r.action.response])
                                ELSE client_rx
                           /\ log' = [log EXCEPT !.last =
                                Event("client", r.action.kind, query, query_id,
                                      pending, pending, FALSE,
                                      Some([to |-> src,
                                            data |-> r.action.response]),
                                      r.entries # cache)]
                           /\ stats' =
                                IF r.action.kind = "Blocked"
                                THEN record_blocked(stats)
                                ELSE record_cached(stats)
                           /\ UNCHANGED <<pending, upstream_rx>>
                      ELSE /\ pending' =
                                pending_insert(pending, query_id,
                                    [client_addr |-> src,
                                     domain |-> r.action.domain])
                           /\ upstream_rx' =
                                send_to_upstreams(upstream_rx, query,
                                                  forward_ok)
                           /\ log' = [log EXCEPT
                                !.forwarded[query_id] = @ + 1,
                                !.overwritten =
                                  IF /\ query_id \in DOMAIN pending
                                     /\ pending[query_id].client_addr # src
                                  THEN BagAdd(@,
                                         [client |-> pending[query_id].client_addr,
                                          id |-> query_id])
                                  ELSE @,
                                !.last =
                                  Event("client", "Forward", query, query_id,
                                        pending, pending', FALSE, None,
                                        r.entries # cache)]
                           /\ UNCHANGED <<client_rx, stats>>
    /\ UNCHANGED <<blk, cod, otherVars, clock, last, puts, nresp, ticks,
                   upstreams, upstream_sockets>>

\* the client branch when every send succeeds
ClientBranch ==
    ClientBranchWith(TRUE, [i \in DOMAIN upstream_rx |-> TRUE])

\* socket.send_to(response, pq.client_addr) with the reply cut to its header
relay_header_only(response, pq) ==
    [to |-> pq.client_addr, data |-> SubSeq(response, 1, 12)]

\* socket.send_to(response, pq.client_addr): the datagram handed to the
\* listening socket
relay(response, pq) == [to |-> pq.client_addr, data |-> response]

\* run, second select branch, taken when no client datagram has arrived:
\* a datagram on the first upstream socket that has one (recv_from_any).
\* relay_ok tells whether send_to hands the reply to the network.
UpstreamBranchWith(relay_ok) ==
    /\ biased(socket)
    /\ \E sock_idx \in DOMAIN upstream_sockets :
        /\ upstream_sockets[sock_idx] # << >>
        /\ \A j \in 1..(sock_idx - 1) : upstream_sockets[j] = << >>
        /\ LET response == Head(upstream_sockets[sock_idx]).data
               query_id == u16_from_be_bytes(response[1], response[2])
               r == pending_remove(pending, query_id)
           IN  /\ upstream_sockets' =
                    [upstream_sockets EXCEPT ![sock_idx] = Tail(@)]
               /\ IF short_datagram(response)
                  THEN /\ log' = [log EXCEPT !.last =
                              Event("upstream", "Short", response, 0, pending,
                                    pending, FALSE, None, FALSE)]
                       /\ UNCHANGED <<cache, pending, client_rx, stats>>
                  ELSE /\ pending' = r.map
                       /\ IF r.value # None
                          THEN /\ client_rx' =
                                    IF relay_ok
                                    THEN BagAdd(client_rx,
                                           relay(response, r.value[1]))
                                    ELSE client_rx
                               /\ cache' = process_response(cache, response, clock)
                               /\ stats' = record_forwarded(stats)
                               /\ log' = [log EXCEPT
                                     !.relayed[query_id] = @ + 1,
                                     !.last =
                                       Event("upstream", "Relayed", response,
                                             query_id, pending, r.map, TRUE,
                                             Some(relay(response, r.value[1])),
                                             cache' # cache)]
                          ELSE /\ log' = [log EXCEPT
                                     !.dropped[query_id] = @ + 1,
                                     !.last =
                                       Event("upstream", "Dropped", response,
                                             query_id, pending, r.map, FALSE,
                                             None, FALSE)]
                               /\ UNCHANGED <<cache, client_rx, stats>>
    /\ UNCHANGED <<blk, cod, otherVars, clock, last, puts, nresp, ticks,
                   upstreams, socket, upstream_rx>>

\* the upstream branch when the relay is sent
UpstreamBranch == UpstreamBranchWith(TRUE)

\* upstream i takes the next datagram it received and sends reply back to
\* the socket the datagram came from
Reply(i, reply) ==
    /\ upstream_rx' = [upstream_rx EXCEPT ![i] = Tail(@)]
    /\ upstream_sockets' =
         [upstream_sockets EXCEPT
            ![i] = Append(@, [from |-> upstreams[i], data |-> reply])]
    /\ UNCHANGED <<blk, cod, otherVars, stats, resolverVars, upstreams,
                   socket, pending, client_rx, log>>

\* the first upstream answers the query, the others send it back unchanged
UpstreamReply ==
    \E i \in DOMAIN upstream_rx :
        /\ upstream_rx[i] # << >>
        /\ Reply(i, IF i = 1 THEN upstream_answer(Head(upstream_rx[i]))
                             ELSE Head(upstream_rx[i]))

\* an upstream sends the query back unchanged
UpstreamEcho ==
    \E i \in DOMAIN upstream_rx :
        /\ upstream_rx[i] # << >>
        /\ Reply(i, Head(upstream_rx[i]))

InitUdp(ups) ==
    /\ blk = BlkIdle
    /\ cod = CodIdle
    /\ cache = EmptyMap
    /\ clock = 0
    /\ last = NoCall
    /\ puts = EmptyMap
    /\ nresp = 0
    /\ ticks = 0
    /\ UdpInit(ups)
    /\ OtherIdle
    /\ StatsIdle

InitEcho == InitUdp(<<Upstreams[1]>>)

NextEcho ==
    ClientSendUnique \/ ClientBranch \/ UpstreamBranch \/ UpstreamEcho \/ Tick

\* The loop keeps running and the upstream keeps echoing: weak fairness of
\* both select branches and of the upstream.  For the client branch it is
\* written out, []<>(not enabled) \/ []<>(taken), with the condition under
\* which the branch is enabled: a datagram waits on the listening socket.
SpecEcho ==
    /\ InitEcho
    /\ [][NextEcho]_vars
    /\ ([]<>(socket = << >>) \/ []<><<ClientBranch>>_vars)
    /\ WF_vars(UpstreamBranch)
    /\ WF_vars(UpstreamEcho)

Init == InitUdp(Upstreams)

Next ==
    ClientSend \/ ClientBranch \/ UpstreamBranch \/ UpstreamReply \/ Tick

Spec == Init /\ [][Next]_vars

\* an upstream datagram waits and no client datagram does: the second
\* select branch can be taken
UpstreamReady ==
    /\ biased(socket)
    /\ \E i \in DOMAIN upstream_sockets : upstream_sockets[i] # << >>

\* a client sends a query under the one id 0x1234, so that every two
\* queries in flight collide
LiveSend ==
    /\ Len(log.sent) < MaxQueries
    /\ \E c \in Clients, q \in UdpQueries({4660}) : SendQuery(c, q)

NextLive == LiveSend \/ ClientBranch \/ UpstreamBranch \/ UpstreamReply

\* The UDP loop running with two upstreams that answer what they receive:
\* weak fairness of both select branches and of the upstreams' replies.
\* For the two branches it is written out, []<>(not enabled) \/
\* []<>(taken).  Clients send at most MaxQueries queries and then stop;
\* the clock stands still.
SpecLive ==
    /\ Init
    /\ [][NextLive]_vars
    /\ ([]<>(socket = << >>) \/ []<><<ClientBranch>>_vars)
    /\ ([]<>(~UpstreamReady) \/ []<><<UpstreamBranch>>_vars)
    /\ WF_vars(UpstreamReply)

\* C32: once the clients have stopped sending and every upstream answers
\* what it received, the pending table becomes empty and stays empty, also
\* after queries collided on an id: the replies of the upstreams that lost
\* the race leave no entry behind.
C32_PendingDrains == <>[](pending = EmptyMap)

\* C32 witness: two queries collided on an id, every datagram has been
\* handled and every reply taken, and nothing is pending
C32_Witness ==
    /\ DOMAIN log.overwritten # {}
    /\ socket = << >>
    /\ \A i \in DOMAIN upstream_sockets :
          upstream_sockets[i] = << >> /\ upstream_rx[i] = << >>
    /\ pending = EmptyMap

(***************************************************************************)
(* SpecReuse: the clients ask for two names that are forwarded, "b" and    *)
(* "c", always under the id 0x1234, so that a reply to one query can meet  *)
(* the pending entry of another.                                           *)
(***************************************************************************)
ReuseNames == { << <<98>> >>, << <<99>> >> }

\* a client sends a query for one of the two names under the id 0x1234
ReuseSend ==
    /\ Len(log.sent) < MaxQueries
    /\ \E c \in Clients, n \in ReuseNames :
         SendQuery(c, [id |-> 4660, labels |-> n, qtype |-> 1, qclass |-> 1])

NextReuse == ReuseSend \/ ClientBranch \/ UpstreamBranch \/ UpstreamReply

SpecReuse == Init /\ [][NextReuse]_vars

\* C35: an upstream reply that is relayed carries the question of the query
\* recorded in the pending entry it was matched with: the domain of its
\* question section is the domain of that entry.
C35_RelayAnswersQuestion ==
    (log.last.branch = "upstream" /\ log.last.kind = "Relayed")
      => LET q == parse(log.last.data)
         IN  /\ q # None
             /\ q[1].domain = log.last.before[log.last.id].domain

\* number of datagrams of the bag b among the keys S
RECURSIVE BagCount(_, _)
BagCount(b, S) ==
    IF S = {} THEN 0
    ELSE LET x == CHOOSE x \in S : TRUE
         IN  b[x] + BagCount(b, S \ {x})

\* the datagrams delivered to clients whose bytes 0-1 are id
DeliveredWithId(id) ==
    { x \in DOMAIN client_rx : SubSeq(x.data, 1, 2) = IdBytes(id) }

\* the queries sent so far that name a domain (the resolver drops the rest
\* as Invalid)
SentQueries ==
    { log.sent[k] : k \in { k \in 1..Len(log.sent) : log.sent[k].q.labels # << >> } }

\* every response bears the id of a query that was sent, goes to the client
\* that sent it, and no query has more than one
AtMostOneResponse ==
    /\ \A x \in DOMAIN client_rx :
         \E k \in 1..Len(log.sent) :
            /\ SubSeq(x.data, 1, 2) = IdBytes(log.sent[k].q.id)
            /\ x.to = log.sent[k].client
    /\ \A k \in 1..Len(log.sent) :
         BagCount(client_rx, DeliveredWithId(log.sent[k].q.id)) <= 1

\* every query sent so far has its response
AllAnswered ==
    \A s \in SentQueries :
        BagCount(client_rx, { x \in DeliveredWithId(s.q.id) : x.to = s.client }) = 1

C7_FirstReplyWins ==
    /\ \A i \in QueryIds :
         log.relayed[i] + (IF i \in DOMAIN pending THEN 1 ELSE 0)
            <= log.forwarded[i]
    /\ \A i \in QueryIds :
         BagCount(client_rx, DeliveredWithId(i))
            <= Cardinality({ k \in 1..Len(log.sent) : log.sent[k].q.id = i })
    /\ log.last.branch = "upstream"
         => /\ log.last.relayed <=> log.last.had
            /\ ~log.last.left

\* C7 witness: one query was forwarded to both upstreams, the first reply
\* handled was relayed, the second found no entry and was dropped
C7_Witness ==
    /\ \E i \in QueryIds :
         /\ log.forwarded[i] = 1 /\ log.relayed[i] = 1 /\ log.dropped[i] = 1
         /\ log.last.branch = "upstream" /\ log.last.id = i
         /\ ~log.last.had /\ ~log.last.relayed /\ ~log.last.left
         /\ BagCount(client_rx, DeliveredWithId(i)) = 1
    /\ pending = EmptyMap

\* the client datagram the loop handled last: the listening socket is a
\* queue, so it is the one sent before those still waiting
Handled == log.sent[Len(log.sent) - Len(socket)]

\* the datagrams delivered to client c whose bytes 0-1 are id
DeliveredTo(c, id) ==
    { x \in DOMAIN client_rx :
        x.to = c /\ Len(x.data) >= 2
                /\ u16_from_be_bytes(x.data[1], x.data[2]) = id }

\* how many of client c's pending entries under id another client's
\* forwarded query replaced
Overwritten(c, id) ==
    LET k == [client |-> c, id |-> id]
    IN  IF k \in DOMAIN log.overwritten THEN log.overwritten[k] ELSE 0

\* C13: a forwarded query whose id is already pending for another client
\* replaces that entry with its own sender; a reply relayed under an id
\* goes to the address the entry held at that moment; and a client never
\* holds more datagrams under an id than the queries it sent under it less
\* those whose entry another client replaced, so the first of two colliding
\* clients gets no response to its query.
C13_CollisionOverwrites ==
    /\ log.last.branch = "client" /\ log.last.kind = "Forward"
         => /\ log.last.id \in DOMAIN pending
            /\ pending[log.last.id].client_addr = Handled.client
    /\ log.last.branch = "upstream" /\ log.last.kind = "Relayed"
         => log.last.sent[1].to = log.last.before[log.last.id].client_addr
    /\ \A c \in Clients : \A i \in QueryIds :
         BagCount(client_rx, DeliveredTo(c, i)) + Overwritten(c, i)
            <= Cardinality({ k \in 1..Len(log.sent) :
                 log.sent[k].client = c /\ log.sent[k].q.id = i })

\* C13 witness: both clients sent a query under one id, the second was
\* forwarded while the first was pending, a reply was relayed, and the
\* first client holds nothing while the second holds the reply
C13_Witness ==
    \E i \in QueryIds :
        /\ Len(log.sent) = 2
        /\ log.sent[1].client = "c1" /\ log.sent[2].client = "c2"
        /\ log.sent[1].q.id = i /\ log.sent[2].q.id = i
        /\ Overwritten("c1", i) = 1
        /\ log.relayed[i] = 1
        /\ pending = EmptyMap
        /\ BagCount(client_rx, DeliveredTo("c1", i)) = 0
        /\ BagCount(client_rx, DeliveredTo("c2", i)) = 1

\* the id in bytes 0-1 of a datagram
DatagramId(data) == u16_from_be_bytes(data[1], data[2])

\* C37: a response handed to send_to by the client branch (Blocked or
\* Cached) goes to the sender of the datagram just handled, under that
\* datagram's id; a reply relayed by the upstream branch goes, with its
\* bytes unchanged, to the address of the pending entry under the reply's
\* id, the last sender forwarded under it; and every datagram a client
\* holds carries the id of a query that client sent and the loop handled.
C37_IdPreserved ==
    /\ (log.last.branch = "client" /\ log.last.sent # None)
         => /\ log.last.sent[1].to = Handled.client
            /\ DatagramId(log.last.sent[1].data) = Handled.q.id
    /\ (log.last.branch = "upstream" /\ log.last.sent # None)
         => /\ log.last.sent[1].data = log.last.data
            /\ DatagramId(log.last.data) \in DOMAIN log.last.before
            /\ log.last.sent[1].to
                 = log.last.before[DatagramId(log.last.data)].client_addr
    /\ \A x \in DOMAIN client_rx :
         /\ Len(x.data) >= 2
         /\ \E k \in 1..(Len(log.sent) - Len(socket)) :
              /\ log.sent[k].client = x.to
              /\ log.sent[k].q.id = DatagramId(x.data)

\* C37 witness: the reply to a query under one id was relayed and cached,
\* and the other client's query for the same name under the other id was
\* answered from the cache; each client holds one datagram
C37_Witness ==
    /\ Len(log.sent) = 2 /\ socket = << >>
    /\ log.sent[1].client # log.sent[2].client
    /\ log.sent[1].q.id # log.sent[2].q.id
    /\ log.relayed[log.sent[1].q.id] = 1
    /\ log.last.branch = "client" /\ log.last.kind = "Cached"
    /\ \A c \in Clients : \E x \in DOMAIN client_rx : x.to = c

(***************************************************************************)
(* SpecRaw: process_query on arbitrary bytes.  A datagram is a prefix of   *)
(* a header, or a header followed by any bytes for the name and by up to   *)
(* five bytes 00 01 00 01 00; the cache is empty or holds one entry, live  *)
(* or expired.                                                             *)
(***************************************************************************)
\* the 12 header bytes: id 0x1234, RD, one question
RawHeader == <<18, 52, 1, 0, 0, 1, 0, 0, 0, 0, 0, 0>>

\* bytes of the name part: 0, label lengths 1 and 2, 'b', and C3 A9, which
\* are UTF-8 only in that order
RawBytes == {0, 1, 2, 98, 195, 169}

RawTail == <<0, 1, 0, 1, 0>>

RawDatagrams ==
    { SubSeq(RawHeader, 1, n) : n \in 0..12 }
    \cup { RawHeader \o name \o SubSeq(RawTail, 1, k) :
             name \in Strings(RawBytes, MaxNameBytes), k \in 0..5 }

\* the cache before the call: empty, or after process_response at instant 0
\* of the echoed query for "b"
RawCaches ==
    { EmptyMap,
      process_response(EmptyMap, encode_query(4660, << <<98>> >>, 1, 1), 0) }

InitRaw ==
    /\ blk = BlkIdle
    /\ last = NoCall
    /\ puts = EmptyMap
    /\ nresp = 0
    /\ ticks = 0
    /\ UdpIdle
    /\ OtherIdle
    /\ StatsIdle
    /\ cache \in RawCaches
    /\ clock \in {0, 60}
    /\ \E data \in RawDatagrams :
        cod = [pc |-> "raw", data |-> data, action |-> Invalid, before |-> cache]

\* Resolver::process_query on the raw datagram
RawProcessQuery ==
    /\ cod.pc = "raw"
    /\ LET r == process_query(cache, cod.data, clock)
       IN  /\ cache' = r.entries
           /\ cod' = [cod EXCEPT !.pc = "processed", !.action = r.action]
    /\ UNCHANGED <<blk, clock, last, puts, nresp, ticks, udpVars,
                   otherVars, stats>>

NextRaw == RawProcessQuery

SpecRaw == InitRaw /\ [][NextRaw]_vars

\* d holds a question: from offset 12 a chain of labels S, each a length
\* byte above 0 followed by that many bytes of UTF-8 that all lie in d, at
\* least one label, then the byte 0 at offset z and four more bytes
HoldsQuestion(d) ==
    /\ Len(d) >= 13
    /\ \E S \in SUBSET (12..(Len(d) - 5)) :
        /\ 12 \in S
        /\ LET z == CHOOSE m \in S : \A x \in S : x <= m
           IN  /\ z > 12
               /\ d[z + 1] = 0
               /\ \A p \in S \ {z} :
                    /\ d[p + 1] # 0
                    /\ p + 1 + d[p + 1] \in S
                    /\ \A x \in S : ~(p < x /\ x < p + 1 + d[p + 1])
                    /\ from_utf8_ok(SubSeq(d, p + 2, p + 1 + d[p + 1]))

\* C11: process_query returns Invalid exactly for the datagrams that hold
\* no question (shorter than 13 bytes, a label running past the end, no
\* label before the terminator, no terminator, a label that is not UTF-8,
\* fewer than 4 bytes after the terminator), and then the cache is as it
\* was.
C11_InvalidIffParseFails ==
    cod.pc = "processed"
    => /\ (cod.action.kind = "Invalid") <=> ~HoldsQuestion(cod.data)
       /\ cod.action.kind = "Invalid" => cache = cod.before

\* C11 witness: the datagram header 01 C3 00 01 00 01 00, whose label is
\* not UTF-8, was found Invalid with the expired entry still in the cache
C11_Witness ==
    /\ cod.pc = "processed"
    /\ cod.data = RawHeader \o <<1, 195>> \o RawTail
    /\ cod.action.kind = "Invalid"
    /\ clock = 60 /\ len(cache) = 1

(***************************************************************************)
(* SpecFaults: the UDP loop when datagrams are malformed and sockets fail: *)
(* clients also send datagrams cut to 11 or 12 bytes, upstreams also reply *)
(* with the query cut to 11 or 12 bytes, recv_from and send_to may return  *)
(* an error.  One client sends, under the id 0x1234, queries for "b" or    *)
(* "b.a"; the clock stands still.                                          *)
(***************************************************************************)
FaultQueries ==
    { [id |-> 4660, labels |-> n, qtype |-> 1, qclass |-> 1] :
        n \in { << <<98>> >>, << <<98>>, <<97>> >> } }

\* lengths to which a datagram is cut: below the 12 header bytes, and the
\* header alone
CutLengths == {11, 12}

\* a client sends a query, whole or cut
ClientSendFaulty ==
    /\ Len(log.sent) < MaxQueries
    /\ \E c \in {"c1"}, q \in FaultQueries :
        \/ SendQuery(c, q)
        \/ \E n \in CutLengths :
              SendDatagram(c, [q EXCEPT !.labels = << >>], SubSeq(Bytes(q), 1, n))

\* the client branch, any send failing or not
ClientBranchFaulty ==
    \E reply_ok \in BOOLEAN, forward_ok \in [DOMAIN upstream_rx -> BOOLEAN] :
        ClientBranchWith(reply_ok, forward_ok)

\* the upstream branch, the relay failing or not
UpstreamBranchFaulty ==
    \E relay_ok \in BOOLEAN : UpstreamBranchWith(relay_ok)

\* socket.recv_from returns an error: the loop goes on
ClientRecvError ==
    /\ log' = [log EXCEPT !.last =
                 Event("client", "RecvError", << >>, 0, pending, pending,
                       FALSE, None, FALSE)]
    /\ UNCHANGED <<blk, cod, otherVars, stats, resolverVars, upstreams, socket,
                   upstream_sockets, upstream_rx, pending, client_rx>>

\* recv_from_any returns an error while no client datagram has arrived
UpstreamRecvError ==
    /\ biased(socket)
    /\ log' = [log EXCEPT !.last =
                 Event("upstream", "RecvError", << >>, 0, pending, pending,
                       FALSE, None, FALSE)]
    /\ UNCHANGED <<blk, cod, otherVars, stats, resolverVars, upstreams, socket,
                   upstream_sockets, upstream_rx, pending, client_rx>>

\* an upstream answers (the first) or echoes (the others), or sends the
\* query back cut
UpstreamReplyFaulty ==
    \E i \in DOMAIN upstream_rx :
        /\ upstream_rx[i] # << >>
        /\ \/ Reply(i, IF i = 1 THEN upstream_answer(Head(upstream_rx[i]))
                                ELSE Head(upstream_rx[i]))
           \/ \E n \in CutLengths :
                Reply(i, SubSeq(Head(upstream_rx[i]), 1, n))

InitFaults == InitUdp(Upstreams)

NextFaults ==
    \/ ClientSendFaulty
    \/ ClientBranchFaulty
    \/ UpstreamBranchFaulty
    \/ UpstreamReplyFaulty
    \/ ClientRecvError
    \/ UpstreamRecvError

SpecFaults == InitFaults /\ [][NextFaults]_vars

\* bytes 0-1 of a datagram as a number
IdOf(data) == data[1] * 256 + data[2]

\* the latest iteration handled an upstream datagram of at least 12 bytes
\* whose id had a pending entry
LastMatched ==
    /\ log.last.branch = "upstream"
    /\ Len(log.last.data) >= 12
    /\ IdOf(log.last.data) \in DOMAIN log.last.before

\* C12: the pending table is what it was before the latest loop iteration,
\* except that a Forward decision put an entry under the query's id and a
\* matching upstream datagram of at least 12 bytes took its entry out;
\* every other decision, short datagram or socket error leaves it as it was
\* (and so does every step outside the loop).
C12_PendingFrame ==
    LET e == log.last
    IN  IF e.branch = "client" /\ e.kind = "Forward"
        THEN /\ DOMAIN pending = (DOMAIN e.before) \cup {IdOf(e.data)}
             /\ \A k \in (DOMAIN e.before) \ {IdOf(e.data)} :
                   pending[k] = e.before[k]
        ELSE IF LastMatched
        THEN /\ DOMAIN pending = (DOMAIN e.before) \ {IdOf(e.data)}
             /\ \A k \in DOMAIN pending : pending[k] = e.before[k]
        ELSE pending = e.before

\* C12 witness: an upstream datagram of 12 bytes that does not parse took
\* the entry of its id out of the table
C12_Witness ==
    /\ LastMatched
    /\ Len(log.last.data) = 12
    /\ log.last.before # EmptyMap
    /\ pending = EmptyMap

\* the datagram at the head of the listening socket is one that
\* process_query decides to forward
ForwardsHead ==
    /\ socket # << >>
    /\ Len(Head(socket).data) >= 12
    /\ process_query(cache, Head(socket).data, clock).action.kind = "Forward"

\* C24: on a Forward decision the pending entry of the query's id is stored
\* for the client's address whatever becomes of the sends, and the client's
\* datagram is handed unchanged, once, to each upstream through the socket
\* of that upstream: it arrives at exactly the upstreams whose send did not
\* fail, so an error on one socket neither stops the later sends nor takes
\* the entry out.
C24_ForwardToEveryUpstream ==
    [][ \A ok \in [DOMAIN upstream_rx -> BOOLEAN] :
          (ForwardsHead /\ ClientBranchWith(TRUE, ok))
          => LET query == Head(socket).data
             IN  /\ IdOf(query) \in DOMAIN pending'
                 /\ pending'[IdOf(query)].client_addr = Head(socket).src
                 /\ \A i \in DOMAIN upstream_rx :
                       upstream_rx'[i] =
                         IF ok[i] THEN Append(upstream_rx[i], query)
                         ELSE upstream_rx[i] ]_vars

\* C24 witness: the first forward of the run, right after the loop handled
\* it: the send to the first upstream failed, the second upstream has the
\* client's datagram and the entry is pending
C24_Witness ==
    /\ log.last.branch = "client" /\ log.last.kind = "Forward"
    /\ log.forwarded[log.last.id] = 1
    /\ \A i \in DOMAIN upstream_sockets : upstream_sockets[i] = << >>
    /\ upstream_rx[1] = << >>
    /\ upstream_rx[2] = <<log.last.data>>
    /\ log.last.id \in DOMAIN pending

\* the loop takes a client datagram that is short or holds no question
DropsClientDatagram ==
    /\ socket # << >>
    /\ socket' = Tail(socket)
    /\ \/ Len(Head(socket).data) < 12
       \/ ~HoldsQuestion(Head(socket).data)

\* the loop takes a datagram of less than 12 bytes from upstream socket i
DropsUpstreamDatagram(i) ==
    /\ upstream_sockets[i] # << >>
    /\ upstream_sockets' = [upstream_sockets EXCEPT ![i] = Tail(@)]
    /\ Len(Head(upstream_sockets[i]).data) < 12

\* C25: taking a datagram of less than 12 bytes, from a client or from an
\* upstream, or a client datagram of 12 bytes or more that does not parse,
\* sends nothing and leaves the pending table, the cache and the counters
\* as they were.
C25_DroppedWithoutEffect ==
    [][ (DropsClientDatagram
           \/ \E i \in DOMAIN upstream_sockets : DropsUpstreamDatagram(i))
        => UNCHANGED <<pending, cache, stats, client_rx, upstream_rx>> ]_vars

\* C25 witness: the loop has just dropped an 11-byte datagram of an
\* upstream whose id has a pending entry
C25_Witness ==
    /\ log.last.branch = "upstream" /\ log.last.kind = "Short"
    /\ Len(log.last.data) = 11
    /\ IdOf(log.last.data) \in DOMAIN pending
    /\ client_rx = << >>

\* the loop takes a datagram from some upstream socket
TakesUpstreamDatagram ==
    \E i \in DOMAIN upstream_sockets :
        Len(upstream_sockets'[i]) < Len(upstream_sockets[i])

\* C31: the loop takes a datagram from an upstream socket only in an
\* iteration where no client datagram waits, so a client datagram that is
\* ready together with an upstream reply goes first; and the client
\* datagram it takes is the one that arrived first.
C31_ClientSocketFirst ==
    [][ /\ TakesUpstreamDatagram => socket = << >>
        /\ Len(socket') < Len(socket)
             => /\ socket' = Tail(socket)
                /\ log'.last.branch = "client"
                /\ log'.last.data = Head(socket).data
                /\ UNCHANGED upstream_sockets ]_vars

\* C31 witness: the latest iteration handled a client datagram, and a
\* reply that an upstream sent is still waiting on its socket
C31_Witness ==
    /\ log.last.branch = "client"
    /\ log.last.kind \in {"Short", "Invalid", "Blocked", "Forward"}
    /\ Len(log.sent) >= 2
    /\ socket = << >>
    /\ \E i \in DOMAIN upstream_sockets : upstream_sockets[i] # << >>

\* C14: an upstream datagram that matches a pending id is handed to
\* send_to unchanged, for the client address of that entry, whether it
\* parses or not; when it does not parse the cache stays as it was, and no
\* entry of the cache ever holds bytes that do not parse.
C14_UnparsedRelayedNotCached ==
    /\ LastMatched
         => /\ log.last.sent =
                 Some([to |-> log.last.before[IdOf(log.last.data)].client_addr,
                       data |-> log.last.data])
            /\ ~HoldsQuestion(log.last.data) => ~log.last.cache_changed
    /\ \A t \in DOMAIN cache : \A d \in DOMAIN cache[t] :
         HoldsQuestion(cache[t][d].response)

\* C14 witness: the 12 header bytes of the query came back from an
\* upstream, were relayed to the client that asked, and the cache is empty
C14_Witness ==
    /\ LastMatched
    /\ ~HoldsQuestion(log.last.data)
    /\ log.last.sent # None
    /\ log.last.sent[1] \in DOMAIN client_rx
    /\ cache = EmptyMap

(***************************************************************************)
(* TCP transport (src/src/transport/tcp.rs).  Every accepted connection is *)
(* handled by its own task: read one length-prefixed query, decide, and    *)
(* for Forward race the upstreams.  What a peer sends on a connection is a *)
(* stream: its bytes and how it goes on after them, "open" (the peer sends *)
(* nothing more and keeps the connection), "close" or "error".             *)
(***************************************************************************)
\* size of the read buffers
MAX_DNS_PACKET_SIZE == 4096

\* most TCP connections accepted
MaxConns == 2

Stream(bytes, end) == [bytes |-> bytes, end |-> end]

\* The read loop shared by read_dns_message and forward_to_upstream: the
\* ways it can end on a stream, as [how, total_read].  A read returns any
\* number of the bytes that have arrived, so the loop may stop with any
\* total_read from 2 + msg_len up to what the peer sent ("full").  When the
\* message never completes the loop reads all there is and then sees
\* Ok(0), at end of stream or with the buffer full ("eof"), or an error
\* ("error"), or waits for ever (no result).
read_loop(stream) ==
    LET got == IF Len(stream.bytes) < MAX_DNS_PACKET_SIZE
               THEN Len(stream.bytes) ELSE MAX_DNS_PACKET_SIZE
        msg_len == u16_from_be_bytes(stream.bytes[1], stream.bytes[2])
    IN  IF got >= 2 /\ got >= 2 + msg_len
        THEN { [how |-> "full", total_read |-> t] : t \in (2 + msg_len)..got }
        ELSE IF got = MAX_DNS_PACKET_SIZE \/ stream.end = "close"
        THEN { [how |-> "eof", total_read |-> got] }
        ELSE IF stream.end = "error"
        THEN { [how |-> "error", total_read |-> got] }
        ELSE { }

\* read_dns_message: the buffer cut to total_read once the message is
\* complete, None at end of stream or on an error
read_dns_message(stream) ==
    { IF r.how = "full" THEN Some(SubSeq(stream.bytes, 1, r.total_read))
      ELSE None : r \in read_loop(stream) }

\* send_tcp_response that writes the response without its length
send_tcp_response_unframed(out, response) == out \o response

\* send_tcp_response: the bytes written to the client so far, then the
\* length as u16 big-endian, then the response (write errors are ignored)
send_tcp_response(out, response) ==
    out \o u16_to_be_bytes(Len(response) % 65536) \o response

\* what an upstream does with one connection: whether connect succeeds,
\* whether the query can be written, and the stream it sends back
Peer(connect_ok, write_ok, stream) ==
    [connect_ok |-> connect_ok, write_ok |-> write_ok, stream |-> stream]

\* forward_to_upstream: None when connect, a write or a read fails or when
\* at most two bytes came back; else the bytes read after the first two
forward_to_upstream(query, peer) ==
    IF ~peer.connect_ok \/ ~peer.write_ok THEN { None }
    ELSE { IF r.how = "error" \/ r.total_read <= 2 THEN None
           ELSE Some(SubSeq(peer.stream.bytes, 3, r.total_read))
           : r \in read_loop(peer.stream) }

\* race_upstreams that gives up at the first failed attempt
race_give_up(remaining, addr, result) ==
    [done |-> TRUE,
     value |-> IF result = None THEN None
               ELSE Some([response |-> result[1], winner |-> addr]),
     remaining |-> remaining \ {addr}]

\* race_upstreams, one turn of its loop: the attempt at addr completed
\* with result.  A response ends the race; a failure takes the attempt out
\* and ends the race with None when it was the last one.
race_upstreams(remaining, addr, result) ==
    IF result # None
    THEN [done |-> TRUE,
          value |-> Some([response |-> result[1], winner |-> addr]),
          remaining |-> remaining \ {addr}]
    ELSE [done |-> remaining \ {addr} = {},
          value |-> None,
          remaining |-> remaining \ {addr}]

\* the queries sent over TCP: "b", "b.a" (blocked), the root name
TcpQueries ==
    { [id |-> 4660, labels |-> n, qtype |-> 1, qclass |-> 1] : n \in UdpNames }

\* a message with its length prefix, as a peer writes it
Framed(message) == u16_to_be_bytes(Len(message)) \o message

\* what a client sends on a connection: a whole query and then nothing, a
\* query followed by one more byte, a query cut after three bytes of the
\* message and the connection closed, or an empty message
ClientStreams ==
    { Stream(Framed(Bytes(q)), "open") : q \in TcpQueries }
    \cup { Stream(Framed(Bytes(q)) \o <<0>>, "open") :
             q \in { x \in TcpQueries : x.labels = << <<98>> >> } }
    \cup { Stream(SubSeq(Framed(Bytes(q)), 1, 5), "close") :
             q \in { x \in TcpQueries : x.labels = << <<98>> >> } }
    \cup { Stream(<<0, 0>>, "open") }

\* what an upstream may do with a forwarded query: refuse the connection,
\* answer, answer in part and close, send an empty message and close, fail
\* while the proxy reads, or accept and stay silent
Peers(query) ==
    { Peer(FALSE, FALSE, Stream(<< >>, "close")),
      Peer(TRUE, TRUE, Stream(Framed(upstream_answer(query)), "close")),
      Peer(TRUE, TRUE,
           Stream(SubSeq(Framed(upstream_answer(query)), 1, 14), "close")),
      Peer(TRUE, TRUE, Stream(<<0, 0>>, "close")),
      Peer(TRUE, TRUE, Stream(<<0>>, "error")),
      Peer(TRUE, TRUE, Stream(<< >>, "open")) }

\* a connection right after accept
Accepted(stream) ==
    [pc |-> "accepted", input |-> stream, query |-> << >>,
     action |-> Invalid, remaining |-> {}, silent |-> {},
     attempts |-> << >>, result |-> None, responded |-> None, out |-> << >>]

\* run_accept_loop: a client connects and a handle_connection task is
\* spawned for the connection
TcpAccept ==
    /\ Len(tcp) < MaxConns
    /\ \E stream \in ClientStreams : tcp' = Append(tcp, Accepted(stream))
    /\ UNCHANGED <<blk, cod, resolverVars, udpVars, stats, threads, poisoned>>

\* handle_connection up to the decision: read the query, strip the length,
\* process_query; Blocked and Cached are answered at once, Forward starts
\* the race (race_upstreams returns None at once without upstreams): one
\* forward_to_upstream task per upstream.  Which upstreams accept the
\* connection and then never send is theirs to choose and is settled when
\* the race starts; what the others do shows when their attempt completes.
\* No counter of Stats is touched.
HandleConnection(c) ==
    /\ tcp[c].pc = "accepted"
    /\ \E m \in read_dns_message(tcp[c].input) :
        IF m = None \/ Len(m[1]) <= 2
        THEN /\ tcp' = [tcp EXCEPT ![c].pc = "done"]
             /\ UNCHANGED cache
        ELSE LET query == SubSeq(m[1], 3, Len(m[1]))
                 r == process_query(cache, query, clock)
             IN  /\ cache' = r.entries
                 /\ \E silent \in IF r.action.kind = "Forward"
                                  THEN SUBSET DOMAIN upstreams
                                  ELSE {{}} :
                    tcp' = [tcp EXCEPT
                      ![c].query = query,
                      ![c].action = r.action,
                      ![c].silent = silent,
                      ![c].pc =
                          IF r.action.kind = "Forward" /\ upstreams # << >>
                          THEN "race" ELSE "done",
                      ![c].remaining =
                          IF r.action.kind = "Forward"
                          THEN DOMAIN upstreams ELSE {},
                      ![c].out =
                          IF r.action.kind \in {"Blocked", "Cached"}
                          THEN send_tcp_response(@, r.action.response)
                          ELSE @]
    /\ UNCHANGED <<blk, cod, clock, last, puts, nresp, ticks, udpVars, stats,
                   threads, poisoned>>

\* one forward_to_upstream of the race completes; a task whose peer stays
\* silent never does.  On a response the handler writes it to the client
\* and calls process_response; the tasks still running when the race
\* returns are left behind and no longer matter.
AttemptCompletes(c) ==
    /\ tcp[c].pc = "race"
    /\ \E addr \in tcp[c].remaining \ tcp[c].silent,
          peer \in Peers(tcp[c].query) :
        \E result \in forward_to_upstream(tcp[c].query, peer) :
            LET r == race_upstreams(tcp[c].remaining, addr, result)
                attempts == Append(tcp[c].attempts,
                                   [addr |-> addr, result |-> result])
            IN  IF r.done /\ r.value # None
                THEN /\ tcp' = [tcp EXCEPT
                          ![c].pc = "done",
                          ![c].remaining = r.remaining,
                          ![c].silent = {},
                          ![c].attempts = attempts,
                          ![c].result = r.value,
                          ![c].responded = Some(r.value[1].response),
                          ![c].out =
                              send_tcp_response(@, r.value[1].response)]
                     /\ cache' = process_response(cache, r.value[1].response,
                                                  clock)
                ELSE /\ tcp' = [tcp EXCEPT
                          ![c].pc = IF r.done THEN "done" ELSE "race",
                          ![c].remaining = r.remaining,
                          ![c].silent = IF r.done THEN {} ELSE @,
                          ![c].attempts = attempts]
                     /\ UNCHANGED cache
    /\ UNCHANGED <<blk, cod, clock, last, puts, nresp, ticks, udpVars, stats,
                   threads, poisoned>>

TcpHandle == \E c \in DOMAIN tcp : HandleConnection(c)

TcpAttempt == \E c \in DOMAIN tcp : AttemptCompletes(c)

InitTcp == InitUdp(Upstreams)

NextTcp == TcpAccept \/ TcpHandle \/ TcpAttempt

SpecTcp == InitTcp /\ [][NextTcp]_vars

\* the upstreams whose attempt has completed on connection t
Attempted(t) == { t.attempts[k].addr : k \in DOMAIN t.attempts }

\* C15: a connection handler writes nothing before its decision is final;
\* when it has ended it has written nothing for Invalid (or a query it
\* could not read), the big-endian length and the response for Blocked and
\* Cached, and for Forward the length and the bytes of the winning reply,
\* or nothing when the race returned None.
C15_OneFramedResponse ==
    \A c \in DOMAIN tcp :
        LET t == tcp[c]
            reply == IF t.action.kind \in {"Blocked", "Cached"}
                     THEN Some(t.action.response)
                     ELSE IF t.action.kind = "Forward" /\ t.result # None
                     THEN Some(t.result[1].response)
                     ELSE None
        IN  IF t.pc = "done" /\ reply # None
            THEN /\ Len(t.out) = 2 + Len(reply[1])
                 /\ t.out[1] * 256 + t.out[2] = Len(reply[1])
                 /\ SubSeq(t.out, 3, Len(t.out)) = reply[1]
            ELSE t.out = << >>

\* C15 witness: one connection got the reply of an upstream and another
\* one the cached copy of it
C15_Witness ==
    \E c, d \in DOMAIN tcp :
        /\ tcp[c].pc = "done" /\ tcp[c].action.kind = "Forward"
        /\ tcp[c].result # None /\ Len(tcp[c].out) > 2
        /\ tcp[d].pc = "done" /\ tcp[d].action.kind = "Cached"
        /\ Len(tcp[d].out) > 2

\* C16: the attempts of a race complete one at a time; all but the last
\* completed one have failed and only took their peer out of the race; the
\* race returns a response exactly when the last completed attempt
\* succeeded, and it is that attempt's response and peer; it returns None
\* only when every upstream's attempt has failed; process_response is
\* called exactly on success, with the winning reply.
C16_RaceFirstSuccess ==
    \A c \in DOMAIN tcp :
        LET t == tcp[c]
            n == Len(t.attempts)
        IN  /\ t.remaining \cap Attempted(t) = {}
            /\ Cardinality(Attempted(t)) = n
            /\ t.action.kind = "Forward"
                 => t.remaining \cup Attempted(t) = DOMAIN upstreams
            /\ \A k \in 1..(n - 1) : t.attempts[k].result = None
            /\ t.result # None
                 => /\ n >= 1 /\ t.pc = "done"
                    /\ t.attempts[n].result = Some(t.result[1].response)
                    /\ t.attempts[n].addr = t.result[1].winner
            /\ t.result = None
                 => /\ \A k \in 1..n : t.attempts[k].result = None
                    /\ t.pc = "done" /\ t.action.kind = "Forward"
                         => Attempted(t) = DOMAIN upstreams
                    /\ t.pc = "race" => t.remaining # {}
            /\ t.responded =
                 IF t.result # None THEN Some(t.result[1].response) ELSE None

\* C16 witness: the first attempt to complete failed, the second one won
\* and its reply went into the cache
C16_Witness ==
    \E c \in DOMAIN tcp :
        /\ Len(tcp[c].attempts) = 2
        /\ tcp[c].attempts[1].result = None
        /\ tcp[c].result # None
        /\ tcp[c].responded = tcp[c].attempts[2].result
        /\ cache # EmptyMap

\* the length a stream declares in its first two bytes
DeclaredLen(bytes) == u16_from_be_bytes(bytes[1], bytes[2])

\* the stream holds its two length bytes and the message they announce
HoldsMessage(bytes) ==
    /\ Len(bytes) >= 2
    /\ Len(bytes) >= 2 + DeclaredLen(bytes)

\* the message of a stream: the DeclaredLen bytes after the prefix
MessageOf(bytes) == SubSeq(bytes, 3, 2 + DeclaredLen(bytes))

\* the replies an upstream sends whole to query
WholeReplies(query) ==
    { MessageOf(p.stream.bytes) :
        p \in { x \in Peers(query) : HoldsMessage(x.stream.bytes) } }

\* C26: a forward attempt yields a response only when the whole
\* length-prefixed reply was read: every response an attempt returned is a
\* reply some upstream sent whole, never the part that had arrived when
\* the upstream closed.
C26_OnlyWholeReplies ==
    \A c \in DOMAIN tcp :
        \A k \in DOMAIN tcp[c].attempts :
            tcp[c].attempts[k].result # None
            => tcp[c].attempts[k].result[1] \in WholeReplies(tcp[c].query)

\* C27: the query the handler hands to process_query and to the upstreams
\* is exactly the message the client declared, without the prefix; a
\* client that closed before the message was complete gets no response
\* and no upstream is contacted.
C27_ExactlyTheMessage ==
    \A c \in DOMAIN tcp :
        /\ tcp[c].query # << >>
           => tcp[c].query = MessageOf(tcp[c].input.bytes)
        /\ ~HoldsMessage(tcp[c].input.bytes)
           => /\ tcp[c].query = << >>
              /\ tcp[c].out = << >>
              /\ tcp[c].remaining = {} /\ tcp[c].attempts = << >>

(***************************************************************************)
(* SpecTcpLive: SpecTcp with the scheduling the runtime gives.  Every       *)
(* connection has a task of its own and every forward attempt a task of    *)
(* its own; a task that can take its next step is eventually run, so a     *)
(* handler that can read its query does, and an attempt whose peer has     *)
(* refused, answered, closed or failed is eventually reported to the race. *)
(* Nothing is assumed of a peer that accepted the connection and sends     *)
(* nothing: forward_to_upstream sets no timeout on connect, write or read. *)
(* The accept loop is a task too and takes a connection that is waiting.   *)
(* Weak fairness of the two handler steps is written out,                  *)
(* []<>(not enabled) \/ []<>(taken), with the condition under which the    *)
(* step is enabled stated as a predicate.                                  *)
(***************************************************************************)
\* the handler of connection c can read its query and decide
CanHandle(c) ==
    /\ c \in DOMAIN tcp
    /\ tcp[c].pc = "accepted"
    /\ read_dns_message(tcp[c].input) # {}

\* an attempt of connection c's race has an outcome to report
CanComplete(c) ==
    /\ c \in DOMAIN tcp
    /\ tcp[c].pc = "race"
    /\ tcp[c].remaining \ tcp[c].silent # {}

SpecTcpLive ==
    /\ InitTcp
    /\ [][NextTcp]_vars
    /\ WF_vars(TcpAccept)
    /\ \A c \in 1..MaxConns :
        /\ []<>(~CanHandle(c)) \/ []<><<CanHandle(c) /\ HandleConnection(c)>>_vars
        /\ []<>(~CanComplete(c))
              \/ []<><<CanComplete(c) /\ AttemptCompletes(c)>>_vars

\* connection c is racing its upstreams
Racing(c) == c \in DOMAIN tcp /\ tcp[c].pc = "race"

\* the handler of connection c has returned
Returned(c) == c \in DOMAIN tcp /\ tcp[c].pc = "done"

\* C21: every forward attempt is bounded by a timeout, so a race that has
\* started ends and the connection handler returns, also when an upstream
\* accepted the connection and stays silent.
C21_RaceTerminates == \A c \in 1..MaxConns : Racing(c) ~> Returned(c)

(***************************************************************************)
(* SpecProxy: both transports on one resolver.  At most MaxQueries queries *)
(* arrive in all, as UDP datagrams or as TCP connections; every send       *)
(* succeeds and the clock stands still.                                    *)
(***************************************************************************)
\* a client sends a datagram, under the id the TCP queries carry
ProxySend ==
    /\ Len(log.sent) + Len(tcp) < MaxQueries
    /\ \E q \in TcpQueries : SendQuery("c1", q)

\* a client connects over TCP
ProxyAccept ==
    /\ Len(log.sent) + Len(tcp) < MaxQueries
    /\ TcpAccept

InitProxy == InitUdp(Upstreams)

NextProxy ==
    \/ ProxySend
    \/ ClientBranch
    \/ UpstreamBranch
    \/ UpstreamReply
    \/ ProxyAccept
    \/ TcpHandle
    \/ TcpAttempt

SpecProxy == InitProxy /\ [][NextProxy]_vars

\* the queries that reached process_query, over UDP and over TCP
QueriesSeen ==
    { Bytes(log.sent[k].q) : k \in DOMAIN log.sent }
    \cup { tcp[c].query : c \in { d \in DOMAIN tcp : tcp[d].query # << >> } }

\* the byte strings an upstream sent in reply to query: over UDP its answer
\* or the query sent back, over TCP what a peer sent after its two length
\* bytes, as far as it was read
RepliesTo(query) ==
    { upstream_answer(query), query }
    \cup UNION { { SubSeq(p.stream.bytes, 3, t) :
                      t \in 3..Len(p.stream.bytes) } : p \in Peers(query) }

\* the messages the proxy sent to clients: the datagrams, and what was
\* written to a TCP connection after the two length bytes
MessagesSent ==
    { x.data : x \in DOMAIN client_rx }
    \cup { SubSeq(tcp[c].out, 3, Len(tcp[c].out)) :
             c \in { d \in DOMAIN tcp : tcp[d].out # << >> } }

\* x is the sinkhole response to a query seen
IsSinkholeReply(x) ==
    \E query \in QueriesSeen : IsSinkhole(x, IdOf(query))

\* x is an upstream reply with bytes 0-1 replaced by the id of a query seen
IsCachedCopy(x) ==
    \E query \in QueriesSeen, asked \in QueriesSeen :
        \E u \in RepliesTo(asked) :
            /\ Len(x) = Len(u) /\ Len(x) >= 2
            /\ SubSeq(x, 1, 2) = SubSeq(query, 1, 2)
            /\ SubSeq(x, 3, Len(x)) = SubSeq(u, 3, Len(u))

\* x is an upstream reply, byte for byte
IsRelayedReply(x) == \E asked \in QueriesSeen : x \in RepliesTo(asked)

\* number of datagrams sent that parse as a query
ParsedSent ==
    Cardinality({ k \in DOMAIN log.sent : parse(Bytes(log.sent[k].q)) # None })

\* C17: every message the proxy sent to a client is the sinkhole response,
\* an upstream reply with another id in bytes 0-1, or an upstream reply
\* unchanged.  A datagram that does not parse gets nothing (the datagrams
\* sent to clients are no more than the queries that parse, and the
\* iteration that saw Invalid sent nothing); a TCP query that does not
\* parse, or whose upstreams all failed, gets nothing.
C17_NoManufacturedResponse ==
    /\ \A x \in MessagesSent :
         IsSinkholeReply(x) \/ IsCachedCopy(x) \/ IsRelayedReply(x)
    /\ BagCount(client_rx, DOMAIN client_rx) <= ParsedSent
    /\ log.last.kind \in {"Short", "Invalid"} => log.last.sent = None
    /\ \A c \in DOMAIN tcp :
         \/ tcp[c].action.kind = "Invalid"
         \/ tcp[c].action.kind = "Forward" /\ tcp[c].result = None
         => tcp[c].out = << >>

\* C17 witness: a datagram that did not parse was handled, a TCP query
\* was forwarded and every upstream failed, and no client got anything
C17_Witness ==
    /\ log.last.kind = "Invalid"
    /\ \E c \in DOMAIN tcp :
         /\ tcp[c].pc = "done" /\ tcp[c].action.kind = "Forward"
         /\ Len(tcp[c].attempts) = Len(upstreams)
         /\ tcp[c].result = None
    /\ client_rx = EmptyMap

\* the TCP connections that were answered after the decision kind
TcpAnswered(kind) ==
    Cardinality({ c \in DOMAIN tcp :
        tcp[c].action.kind = kind /\ tcp[c].out # << >> })

\* the UDP replies relayed to clients
UdpRelayed == BagCount(log.relayed, DOMAIN log.relayed)

\* C18: the counters count every answered query once: requests is the
\* number of datagrams sent to clients plus the TCP connections answered,
\* it is the sum of blocked, cached and forwarded, and forwarded is the
\* number of upstream replies passed on over UDP and over TCP.
C18_EveryDecisionCounted ==
    /\ stats.requests = stats.blocked + stats.cached + stats.forwarded
    /\ stats.requests =
         BagCount(client_rx, DOMAIN client_rx)
         + TcpAnswered("Blocked") + TcpAnswered("Cached")
         + TcpAnswered("Forward")
    /\ stats.forwarded = UdpRelayed + TcpAnswered("Forward")

(***************************************************************************)
(* SpecShared: both transports on one resolver, as in SpecProxy, with UDP  *)
(* queries under the id 0xABCD and TCP queries under 0x1234, and upstreams *)
(* that answer a datagram in full or with the TC (truncated) flag set.     *)
(* The clock stands still, so every entry stays within its TTL.            *)
(***************************************************************************)
\* a client sends a datagram under the id 0xABCD
SharedSend ==
    /\ Len(log.sent) + Len(tcp) < MaxQueries
    /\ \E q \in UdpQueries({43981}) : SendQuery("c1", q)

\* an upstream's answer with flags 0x8380: QR, TC, RD, RA
upstream_truncated(query) == [upstream_answer(query) EXCEPT ![3] = 131]

\* an upstream answers the next datagram, in full or marked truncated
SharedReply ==
    \E i \in DOMAIN upstream_rx :
        /\ upstream_rx[i] # << >>
        /\ \E reply \in { upstream_answer(Head(upstream_rx[i])),
                          upstream_truncated(Head(upstream_rx[i])) } :
             Reply(i, reply)

NextShared ==
    \/ SharedSend
    \/ ClientBranch
    \/ UpstreamBranch
    \/ SharedReply
    \/ ProxyAccept
    \/ TcpHandle
    \/ TcpAttempt

SpecShared == InitProxy /\ [][NextShared]_vars

\* the cache holds the bytes of response under the key of its question
StoredAsReceived(es, response) ==
    LET q == parse(response)
    IN  q # None
        => /\ has_entry(es, q[1].qtype, q[1].domain)
           /\ es[q[1].qtype][q[1].domain].response = response

\* the cached copy for query: the bytes stored under the key of its
\* question with bytes 0-1 replaced by the id of the query
CopyFor(es, query) ==
    LET q == parse(query)
        response == es[q[1].qtype][q[1].domain].response
    IN  SubSeq(query, 1, 2) \o SubSeq(response, 3, Len(response))

\* the query parses, its name is not blocked, and the cache holds an entry
\* under its key that has not expired
Answerable(es, query, now) ==
    LET q == parse(query)
    IN  /\ q # None
        /\ filter_query(blocklist, q[1]) = None
        /\ has_entry(es, q[1].qtype, q[1].domain)
        /\ now < es[q[1].qtype][q[1].domain].expires_at

\* C38: the reply a transport relays to its client is stored, as received,
\* in the one cache (over UDP also when it is marked truncated), and a
\* query that either transport then handles for a key whose entry has not
\* expired is answered Cached with the stored bytes under its own id: over
\* TCP after the length prefix, over UDP as the datagram.
C38_OneCacheForBoth ==
    [][ /\ (TakesUpstreamDatagram /\ log'.last.kind = "Relayed")
             => StoredAsReceived(cache', log'.last.data)
        /\ \A c \in DOMAIN tcp :
             /\ (tcp[c].responded = None /\ tcp'[c].responded # None)
                  => StoredAsReceived(cache', tcp'[c].responded[1])
             /\ (/\ tcp[c].pc = "accepted" /\ tcp'[c].pc # "accepted"
                 /\ Answerable(cache, tcp'[c].query, clock))
                  => /\ tcp'[c].action.kind = "Cached"
                     /\ tcp'[c].out
                          = Framed(CopyFor(cache, tcp'[c].query))
        /\ (/\ Len(socket') < Len(socket)
            /\ ~short_datagram(Head(socket).data)
            /\ Answerable(cache, Head(socket).data, clock))
             => /\ log'.last.kind = "Cached"
                /\ log'.last.sent
                     = Some([to |-> Head(socket).src,
                             data |-> CopyFor(cache, Head(socket).data)])
      ]_vars

\* C38 witness: a reply marked truncated was relayed to the UDP client
\* that asked under 0xABCD, and a TCP client that then asked for the same
\* name under 0x1234 was sent those bytes under its id
C38_Witness ==
    /\ Len(log.sent) = 1 /\ log.relayed[43981] = 1
    /\ \E x \in DOMAIN client_rx :
         /\ x.data[3] = 131
         /\ Len(tcp) = 1 /\ tcp[1].action.kind = "Cached"
         /\ tcp[1].out = Framed(<<18, 52>> \o SubSeq(x.data, 3, Len(x.data)))

\* C38 witness, the other way round: the reply to a TCP query was cached
\* and a UDP query for the same name was answered from it
C38_WitnessTcpFirst ==
    /\ Len(tcp) = 1 /\ tcp[1].responded # None
    /\ log.last.branch = "client" /\ log.last.kind = "Cached"
    /\ log.last.sent[1].data
         = <<171, 205>> \o SubSeq(tcp[1].responded[1], 3,
                                  Len(tcp[1].responded[1]))

(***************************************************************************)
(* SpecSpoof: the UDP loop of Spec with one more host, "x", that is not an *)
(* upstream.  The upstream sockets are bound to 0.0.0.0:0 and never        *)
(* connected, so they take datagrams from any source; "x" sends one to an  *)
(* upstream socket under an id that is pending.  Its datagrams answer with *)
(* the address 6.6.6.6, which no upstream does.                            *)
(***************************************************************************)
\* the answer of the host "x" to a query: the record holds 6.6.6.6
forged_answer(query) ==
    LET a == upstream_answer(query)
    IN  SubSeq(a, 1, Len(a) - 4) \o <<6, 6, 6, 6>>

\* data came from the host "x"
IsForged(data) ==
    Len(data) >= 4 /\ SubSeq(data, Len(data) - 3, Len(data)) = <<6, 6, 6, 6>>

\* the host "x" sends its answer for the name "b", under a pending id, to
\* an upstream socket; one such datagram is under way at a time
Spoof ==
    /\ \A j \in DOMAIN upstream_sockets :
         \A k \in DOMAIN upstream_sockets[j] :
            upstream_sockets[j][k].from # "x"
    /\ \E i \in DOMAIN upstream_sockets, id \in DOMAIN pending :
         upstream_sockets' =
           [upstream_sockets EXCEPT
              ![i] = Append(@,
                 [from |-> "x",
                  data |-> forged_answer(Bytes(
                     [id |-> id, labels |-> << <<98>> >>, qtype |-> 1,
                      qclass |-> 1]))])]
    /\ UNCHANGED <<blk, cod, otherVars, stats, resolverVars, upstreams,
                   socket, upstream_rx, pending, client_rx, log>>

NextSpoof ==
    ClientSend \/ ClientBranch \/ UpstreamBranch \/ UpstreamReply \/ Spoof

SpecSpoof == Init /\ [][NextSpoof]_vars

\* C39: a datagram that reached an upstream socket from a host that is not
\* the configured upstream is not relayed to a client, is not cached, and
\* leaves the pending entry under its id in place.
C39_OnlyConfiguredUpstream ==
    /\ \A x \in DOMAIN client_rx : ~IsForged(x.data)
    /\ \A k \in Keys(cache) : ~IsForged(cache[k[1]][k[2]].response)
    /\ (log.last.branch = "upstream" /\ IsForged(log.last.data))
         => /\ log.last.kind # "Relayed"
            /\ log.last.had => log.last.left

(***************************************************************************)
(* SpecStats: threads in Stats (src/src/stats.rs).  Recorder threads call  *)
(* record_forwarded, record_cached or record_blocked, the reporter calls   *)
(* snapshot_and_reset; every atomic operation is one step, and the steps   *)
(* of different threads interleave freely.                                 *)
(***************************************************************************)
\* threads that call record_*
MaxRecorders == 2
\* most record_* calls and most snapshot_and_reset calls
MaxRecords == 3
MaxSnapshots == 2

Counters == <<"requests", "forwarded", "cached", "blocked">>

\* AtomicU64::swap(0) that leaves the counter as it is
swap_keep(st, field) == [value |-> st[field], st |-> st]

\* AtomicU64::swap(0, Ordering::Relaxed): the value read and the counters
\* after it
swap(st, field) == [value |-> st[field], st |-> [st EXCEPT ![field] = 0]]

InitStats ==
    /\ blk = BlkIdle
    /\ cod = CodIdle
    /\ ResolverIdle
    /\ UdpIdle
    /\ tcp = << >>
    /\ poisoned = FALSE
    /\ StatsIdle
    /\ threads =
         [recorder |-> [t \in 1..MaxRecorders |-> [pc |-> "idle", kind |-> ""]],
          reporter |-> [pc |-> 0, local |-> ZeroStats],
          calls |-> 0,
          added |-> ZeroStats,
          snapshots |-> << >>]

\* a recorder enters record_forwarded, record_cached or record_blocked:
\* requests.fetch_add(1)
RecordEnter ==
    /\ threads.calls < MaxRecords
    /\ \E t \in 1..MaxRecorders, kind \in {"forwarded", "cached", "blocked"} :
        /\ threads.recorder[t].pc = "idle"
        /\ stats' = fetch_add(stats, "requests")
        /\ threads' = [threads EXCEPT
               !.recorder[t] = [pc |-> "counted", kind |-> kind],
               !.calls = @ + 1,
               !.added = fetch_add(@, "requests")]
    /\ UNCHANGED <<blk, cod, resolverVars, udpVars, tcp, poisoned>>

\* the second fetch_add of record_*, on the counter of its kind; the call
\* returns
RecordFinish ==
    /\ \E t \in 1..MaxRecorders :
        /\ threads.recorder[t].pc = "counted"
        /\ stats' = fetch_add(stats, threads.recorder[t].kind)
        /\ threads' = [threads EXCEPT
               !.recorder[t] = [pc |-> "idle", kind |-> ""],
               !.added = fetch_add(@, threads.recorder[t].kind)]
    /\ UNCHANGED <<blk, cod, resolverVars, udpVars, tcp, poisoned>>

\* snapshot_and_reset, one swap: the reporter takes the next counter
SnapshotSwap ==
    /\ threads.reporter.pc < Len(Counters)
    /\ threads.reporter.pc > 0 \/ Len(threads.snapshots) < MaxSnapshots
    /\ LET field == Counters[threads.reporter.pc + 1]
           r == swap(stats, field)
       IN  /\ stats' = r.st
           /\ threads' = [threads EXCEPT
                  !.reporter.pc = @ + 1,
                  !.reporter.local[field] = r.value]
    /\ UNCHANGED <<blk, cod, resolverVars, udpVars, tcp, poisoned>>

\* snapshot_and_reset returns the StatsSnapshot
SnapshotReturn ==
    /\ threads.reporter.pc = Len(Counters)
    /\ threads' = [threads EXCEPT
           !.reporter = [pc |-> 0, local |-> ZeroStats],
           !.snapshots = Append(@, threads.reporter.local)]
    /\ UNCHANGED <<blk, cod, resolverVars, udpVars, tcp, stats, poisoned>>

NextStats == RecordEnter \/ RecordFinish \/ SnapshotSwap \/ SnapshotReturn

SpecStats == InitStats /\ [][NextStats]_vars

\* the sum of the values of counter field over the snapshots returned
RECURSIVE SnapshotSum(_, _)
SnapshotSum(snaps, field) ==
    IF snaps = << >> THEN 0
    ELSE Head(snaps)[field] + SnapshotSum(Tail(snaps), field)

\* the value the running snapshot_and_reset has taken out of the counter
\* field and not returned yet
InFlight(field) ==
    IF \E k \in 1..threads.reporter.pc : Counters[k] = field
    THEN threads.reporter.local[field] ELSE 0

\* C19: for each of requests, forwarded, cached and blocked, whenever no
\* snapshot_and_reset is under way the values the snapshots returned plus
\* the counter's value are the number of completed increments of that
\* counter; while one is under way the value it has swapped out and not
\* yet returned makes up the difference.
C19_CountsConserved ==
    \A k \in DOMAIN Counters :
        LET field == Counters[k]
        IN  /\ SnapshotSum(threads.snapshots, field) + InFlight(field)
                 + stats[field] = threads.added[field]
            /\ threads.reporter.pc = 0
                 => SnapshotSum(threads.snapshots, field) + stats[field]
                      = threads.added[field]

\* C19 witness: two snapshots were returned, the first taken while a
\* record call stood between its two increments, and every increment is
\* accounted for
C19_Witness ==
    /\ Len(threads.snapshots) = 2
    /\ threads.reporter.pc = 0
    /\ threads.snapshots[1].requests = 1
    /\ threads.snapshots[1].blocked = 0
    /\ threads.snapshots[2].requests = 0
    /\ threads.snapshots[2].blocked = 1
    /\ threads.added.requests = 1

(***************************************************************************)
(* SpecRace: DnsCache::get and put called concurrently on one key.  A get  *)
(* takes `now`, then the read lock, and after a miss the write lock; each  *)
(* lock is held for one step, and between the steps of a get other calls   *)
(* run and time passes.  threads holds the gets: where each one is (pc),   *)
(* its `now`, its result, and what it met: the entry seen under the read   *)
(* lock (saw), the entry its write phase took out (removed), the entry its *)
(* write phase left (kept) and the instant of the write phase (at).        *)
(***************************************************************************)
\* most concurrent calls of get
MaxGetters == 2

\* the parsed query of every get: "b", type A
RaceQuery == parse(encode_query(4660, << <<98>> >>, 1, 1))[1]

\* the responses put: "b" answered with TTL 10 or 300
RaceResponses ==
    { build_dns_response(4660, << <<98>> >>, 1, 1, t) :
        t \in { <<0, 0, 0, 10>>, <<0, 0, 1, 44>> } }

\* the entry stored for the query, as an Option
entry_of(entries, query) ==
    IF has_entry(entries, query.qtype, query.domain)
    THEN Some(entries[query.qtype][query.domain])
    ELSE None

NoGet ==
    [pc |-> "idle", now |-> 0, result |-> None, saw |-> None,
     removed |-> None, kept |-> None, at |-> 0]

InitRace ==
    /\ blk = BlkIdle
    /\ cod = CodIdle
    /\ ResolverIdle
    /\ UdpIdle
    /\ StatsIdle
    /\ tcp = << >>
    /\ poisoned = FALSE
    /\ threads = [g \in 1..MaxGetters |-> NoGet]

\* get is entered: `let now = Instant::now()`
GetEnter(g) ==
    /\ threads[g].pc = "idle"
    /\ threads' = [threads EXCEPT ![g].pc = "read", ![g].now = clock]
    /\ UNCHANGED <<blk, cod, resolverVars, udpVars, stats, tcp, poisoned>>

\* the block under the read lock: a live entry is returned, else the get
\* goes on to the write lock
GetRead(g) ==
    /\ threads[g].pc = "read"
    /\ LET r == get_read(cache, RaceQuery, threads[g].now)
       IN  threads' = [threads EXCEPT
                ![g].pc = IF r = None THEN "write" ELSE "done",
                ![g].result = r,
                ![g].saw = entry_of(cache, RaceQuery)]
    /\ UNCHANGED <<blk, cod, resolverVars, udpVars, stats, tcp, poisoned>>

\* the part under the write lock; get returns None
GetWrite(g) ==
    /\ threads[g].pc = "write"
    /\ cache' = get_write(cache, RaceQuery, threads[g].now)
    /\ threads' = [threads EXCEPT
            ![g].pc = "done",
            ![g].removed = IF entry_of(cache', RaceQuery) = None
                           THEN entry_of(cache, RaceQuery) ELSE None,
            ![g].kept = entry_of(cache', RaceQuery),
            ![g].at = clock]
    /\ UNCHANGED <<blk, cod, clock, last, puts, nresp, ticks, udpVars, stats,
                   tcp, poisoned>>

RaceEnter == \E g \in DOMAIN threads : GetEnter(g)

RaceRead == \E g \in DOMAIN threads : GetRead(g)

RaceWrite == \E g \in DOMAIN threads : GetWrite(g)

\* put is called with an upstream response, whole under the write lock
RacePut ==
    /\ nresp < MaxResponses
    /\ \E response \in RaceResponses :
          cache' = put(cache, RaceQuery, response, clock)
    /\ nresp' = nresp + 1
    /\ UNCHANGED <<blk, cod, clock, last, puts, ticks, udpVars, stats,
                   otherVars>>

NextRace == RaceEnter \/ RaceRead \/ RaceWrite \/ RacePut \/ Tick

SpecRace == InitRace /\ [][NextRace]_vars

\* C28: the write phase of a get takes an entry out only if the entry is
\* expired at the get's own `now`, and so at the instant of the removal:
\* an entry put while the get waited for the write lock, which expires
\* after that `now`, is left in place.
C28_NoLiveEntryRemoved ==
    \A g \in DOMAIN threads :
        LET t == threads[g]
        IN  /\ t.removed # None
               => /\ t.removed[1].expires_at <= t.now
                  /\ t.removed[1].expires_at <= t.at
            /\ t.kept # None => t.now < t.kept[1].expires_at

\* C28 witness: a get saw an expired entry under the read lock, a put then
\* stored a fresh entry for the key, and the write phase of the get left
\* the fresh entry in the map
C28_Witness ==
    \E g \in DOMAIN threads :
        LET t == threads[g]
        IN  /\ t.pc = "done"
            /\ t.saw # None /\ t.saw[1].expires_at <= t.now
            /\ t.removed = None
            /\ t.kept # None /\ t.kept # t.saw
            /\ t.at < t.kept[1].expires_at

(***************************************************************************)
(* SpecPoison: the resolver on a cache whose lock may be poisoned.  The    *)
(* lock becomes poisoned when a thread panics while it holds the write     *)
(* guard, and stays so.  `last` keeps the latest call of each kind.        *)
(***************************************************************************)
NoCalls ==
    [query |-> [op |-> "none"], response |-> [op |-> "none"],
     len |-> [op |-> "none"]]

InitPoison ==
    /\ blk = BlkIdle
    /\ cod = CodIdle
    /\ cache = EmptyMap
    /\ clock = 0
    /\ last = NoCalls
    /\ puts = EmptyMap
    /\ nresp = 0
    /\ ticks = 0
    /\ UdpIdle
    /\ OtherIdle
    /\ StatsIdle

\* the upstream responses of this specification: the answers with TTL 300
PoisonResponses ==
    { m \in Responses : m.kind = "answer" /\ m.ttl = <<0, 0, 1, 44>> }

\* a transport calls process_query(data)
PoisonQuery ==
    /\ \E q \in { x \in Queries : x.id = 4660 } :
        LET r == process_query_on(poisoned, cache, Bytes(q), clock)
        IN  /\ cache' = r.entries
            /\ last' = [last EXCEPT !.query =
                  [op |-> "query", poisoned |-> poisoned, q |-> q,
                   action |-> r.action, before |-> cache, after |-> r.entries]]
    /\ UNCHANGED <<blk, cod, clock, puts, nresp, ticks, udpVars, otherVars,
                   stats>>

\* a transport calls process_response(response)
PoisonResponse ==
    /\ nresp < MaxResponses
    /\ \E m \in PoisonResponses :
        LET after == process_response_on(poisoned, cache, Bytes(m), clock)
        IN  /\ cache' = after
            /\ last' = [last EXCEPT !.response =
                  [op |-> "response", poisoned |-> poisoned, q |-> m,
                   before |-> cache, after |-> after]]
    /\ nresp' = nresp + 1
    /\ UNCHANGED <<blk, cod, clock, puts, ticks, udpVars, otherVars, stats>>

\* the reporter calls cache_len()
PoisonLen ==
    /\ last' = [last EXCEPT !.len =
          [op |-> "len", poisoned |-> poisoned, before |-> cache,
           after |-> cache, result |-> lock_len(poisoned, cache)]]
    /\ UNCHANGED <<blk, cod, cache, clock, puts, nresp, ticks, udpVars,
                   otherVars, stats>>

\* a thread panics with the write guard of the cache in its hands
WriterPanics ==
    /\ ~poisoned
    /\ poisoned' = TRUE
    /\ UNCHANGED <<blk, cod, resolverVars, udpVars, tcp, threads, stats>>

NextPoison == PoisonQuery \/ PoisonResponse \/ PoisonLen \/ WriterPanics

SpecPoison == InitPoison /\ [][NextPoison]_vars

\* C20: a call made while the lock is poisoned leaves the map as it was;
\* process_query is never answered from the cache then: a query for a name
\* that is not blocked gives Forward even when the map holds a live entry
\* for it (a blocked one still gives Blocked); process_response stores
\* nothing; cache_len gives 0.  Every such call returns a value.
C20_PoisonedLockDegrades ==
    /\ \A k \in {"query", "response", "len"} :
         last[k].op # "none" /\ last[k].poisoned
            => last[k].after = last[k].before
    /\ last.query.op # "none" /\ last.query.poisoned
         => last.query.action.kind =
              IF last.query.q.labels = << <<98>> >> THEN "Forward"
              ELSE "Blocked"
    /\ last.len.op # "none" /\ last.len.poisoned => last.len.result = 0

\* C20 witness: with a live entry for "b" in the map and the lock poisoned,
\* a query for "b" was forwarded, an upstream answer was not stored and
\* cache_len gave 0
C20_Witness ==
    /\ poisoned
    /\ has_entry(cache, 1, <<98>>)
    /\ clock < cache[1][<<98>>].expires_at
    /\ last.query.op = "query" /\ last.query.poisoned
    /\ last.query.q.labels = << <<98>> >>
    /\ last.query.action.kind = "Forward"
    /\ last.response.op = "response" /\ last.response.poisoned
    /\ last.response.q.kind = "answer"
    /\ last.len.op = "len" /\ last.len.poisoned
    /\ last.len.result = 0

====
